---------------------------- MODULE Spec2Model ----------------------------
(***************************************************************************)
(* A model of lindbladmpo/LindbladMPOSolver.py: the parameter validator    *)
(* (verify_parameters), the input serializer (build) and the solver        *)
(* object's fields.                                                        *)
(*                                                                         *)
(* Python values are records [ty, n, s, items]:                            *)
(*   ty    the Python type name                                            *)
(*   n     the number held by an int / bool; a float holds its value in    *)
(*         halves (n = 3 is 1.5), which is exact in binary floating point  *)
(*   s     the characters of a str (a sequence of one-character strings),  *)
(*         or the dtype name of an ndarray                                 *)
(*   items the members of a list / tuple / ndarray, or the entries         *)
(*         [key, val] of a dict in insertion order                         *)
(***************************************************************************)
EXTENDS Integers, Sequences, FiniteSets, TLC

VARIABLES
    parameters,     \* self.parameters
    s_input_file,   \* self.s_input_file
    s_output_path,  \* self.s_output_path
    s_id_suffix,    \* self.s_id_suffix
    fs,             \* the files on disk: a set of [path, lines]
    last,           \* the last verify_parameters or build call and its outcome
    self_result,    \* self.result
    out,            \* the data files the solver process leaves under
                    \* s_output_path when it runs, by type
    trace           \* the steps of the last solve call and its outcome

vars == <<parameters, s_input_file, s_output_path, s_id_suffix, fs, last,
          self_result, out, trace>>

\* the state that only solve touches
solve_vars == <<self_result, out, trace>>

-----------------------------------------------------------------------------
(* Python values *)

Atom(ty, n, s) == [ty |-> ty, n |-> n, s |-> s, items |-> <<>>]
PyNone == Atom("NoneType", 0, <<>>)
PyInt(n) == Atom("int", n, <<>>)
PyBool(b) == Atom("bool", IF b THEN 1 ELSE 0, <<>>)
PyFloat(halves) == Atom("float", halves, <<>>)
PyStr(chars) == Atom("str", 0, chars)
PyList(items) == [ty |-> "list", n |-> 0, s |-> <<>>, items |-> items]
PyTuple(items) == [ty |-> "tuple", n |-> 0, s |-> <<>>, items |-> items]
NdArray(dtype, items) == [ty |-> "ndarray", n |-> 0, s |-> dtype, items |-> items]
PyDict(entries) == [ty |-> "dict", n |-> 0, s |-> <<>>, items |-> entries]
Entry(key, val) == [key |-> key, val |-> val]

\* key in parameters
HasKey(p, key) == \E i \in 1..Len(p.items) : p.items[i].key = key
\* parameters[key]
GetItem(p, key) == p.items[CHOOSE i \in 1..Len(p.items) : p.items[i].key = key].val

\* the value of a number, in halves
Num(v) == IF v.ty = "float" THEN v.n ELSE 2 * v.n

\* isinstance(value, int): bool is a subclass of int
_is_int(value) == value.ty \in {"int", "bool"}

\* isinstance(value, (float, int))
_is_float(value) == value.ty \in {"float", "int", "bool"}

\* returns the number of qubits based on the given parameters, -1 on error
_get_number_of_qubits(p) ==
    IF HasKey(p, "N") /\ _is_int(GetItem(p, "N")) THEN GetItem(p, "N").n ELSE -1

\* str.lower on one character
LowerChar(c) ==
    CASE c = "X" -> "x" [] c = "Y" -> "y" [] c = "Z" -> "z" [] OTHER -> c

\* str.lower
Lower(s) == [i \in 1..Len(s) |-> LowerChar(s[i])]

\* str.find(sub) == -1
NotFound(s, sub) ==
    ~ \E i \in 0..(Len(s) - Len(sub)) :
        \A j \in 1..Len(sub) : s[i + j] = sub[j]

-----------------------------------------------------------------------------
(* The diagnostic text.  check_msg is a sequence of tokens: the body of a   *)
(* diagnostic (its error number, 0 for the unnumbered "unknown parameter    *)
(* key" message, and the key concatenated into it, "" when none is), a      *)
(* line break "\n", or a space.                                             *)

Tok(kind, code, key) == [kind |-> kind, code |-> code, key |-> key]
NL == Tok("nl", 0, "")
SP == Tok("sp", 0, "")

\* check_msg += "Error <code>: " + key + " ...\n"
MsgNl(code, key) == <<Tok("diag", code, key), NL>>
\* check_msg += "Error <code>: " + key + " ...\n "
MsgNlSp(code, key) == <<Tok("diag", code, key), NL, SP>>
\* check_msg += "Error <code>: " + key + " ..." (no line break in the literal)
MsgBare(code, key) == <<Tok("diag", code, key)>>

\* the outcome of a piece of verify_parameters: the text it appended, or
\* the exception it raised
Appended(msg) == [exc |-> "", msg |-> msg]
Passed == Appended(<<>>)
Raised(exc) == [exc |-> exc, msg |-> <<>>]

\* index of the first member of seq satisfying P, 0 when there is none
FirstIndex(seq, P(_)) ==
    IF \E i \in 1..Len(seq) : P(seq[i])
    THEN CHOOSE i \in 1..Len(seq) : P(seq[i]) /\ \A j \in 1..(i - 1) : ~P(seq[j])
    ELSE 0

\* len(set(lst)) for a list of ints: 1 == True hash alike
DistinctInts(items) == Cardinality({items[i].n : i \in 1..Len(items)})

\* len(set(lst)) for a list of tuples of ints
DistinctPairs(items) ==
    Cardinality({[j \in 1..Len(items[i].items) |-> items[i].items[j].n] :
                    i \in 1..Len(items)})

\* ndarray.shape[0]
Shape0(a) == Len(a.items)

\* ndarray.size
Size(a) ==
    IF Len(a.items) = 0 THEN 0
    ELSE IF a.items[1].ty = "ndarray" THEN Len(a.items) * Len(a.items[1].items)
    ELSE Len(a.items)

\* str(dtype).find("int") == -1 and str(dtype).find("float") == -1
NotNumericDtype(a) ==
    NotFound(a.s, <<"i", "n", "t">>) /\ NotFound(a.s, <<"f", "l", "o", "a", "t">>)

-----------------------------------------------------------------------------
(* verify_parameters: the rule of each key.  Every operator gives the      *)
(* outcome of one pass of the per-key loop body for that key.              *)

\* a > b on Python values: ordering a number against a non-number raises
PyGreater(a, b, then, else) ==
    IF _is_float(a) /\ _is_float(b)
    THEN (IF Num(a) > Num(b) THEN then ELSE else)
    ELSE Raised("TypeError")

\* key == "N"
CheckN(key, v) ==
    IF ~_is_int(v) THEN Appended(MsgNl(120, key))
    ELSE IF v.n <= 0 THEN Appended(MsgNl(130, key))
    ELSE Passed

\* key == "t_init" or key == "t_final" or key == "tau"
CheckTime(p, key, v) ==
    IF ~_is_float(v) THEN Appended(MsgNl(140, key))
    ELSE IF key # "t_init" /\ Num(v) <= 0 THEN Appended(MsgNl(150, key))
    ELSE IF key = "t_init"
         THEN PyGreater(v, GetItem(p, "t_final"), Appended(MsgNl(151, key)), Passed)
    ELSE Passed

\* key == "l_x" or key == "l_y"
CheckLattice(key, v) ==
    IF ~_is_int(v) THEN Appended(MsgNl(160, key))
    ELSE IF v.n < 0 THEN Appended(MsgNl(170, key))
    ELSE Passed

\* CheckStep with `<= 0` for `< 0`
CheckStep_positive(key, v) ==
    IF ~_is_int(v) THEN Appended(MsgNl(180, key))
    ELSE IF v.n <= 0 THEN Appended(MsgNl(190, key))
    ELSE Passed

\* key == "output_step" or key == "force_rho_hermitian_step"
CheckStep(key, v) ==
    IF ~_is_int(v) THEN Appended(MsgNl(180, key))
    ELSE IF v.n < 0 THEN Appended(MsgNl(190, key))
    ELSE Passed

\* key in h_x, h_y, h_z, g_0, g_1, g_2
CheckSiteVector(p, key, v) ==
    LET number_of_qubits == _get_number_of_qubits(p)
        NotFloat(element) == ~_is_float(element)
    IN  IF _is_float(v) THEN Passed
        ELSE IF number_of_qubits = -1 THEN Appended(MsgNlSp(200, key))
        ELSE IF v.ty = "list"
             THEN IF Len(v.items) # number_of_qubits THEN Appended(MsgNl(210, key))
                  ELSE IF FirstIndex(v.items, NotFloat) # 0
                       THEN Appended(MsgNlSp(220, key))
                  ELSE Passed
        ELSE IF v.ty = "ndarray"
             THEN IF NotNumericDtype(v) THEN Appended(MsgNl(230, key))
                  ELSE IF Size(v) = 1 THEN Passed
                  ELSE IF Shape0(v) # number_of_qubits \/ Shape0(v) # Size(v)
                       THEN Appended(MsgNl(240, key))
                  ELSE Passed
        ELSE Appended(MsgNl(250, key))

\* key == "J_z" or key == "J"
CheckCoupling(p, key, v) ==
    LET number_of_qubits == _get_number_of_qubits(p)
        NotFloat(val) == ~_is_float(val)
        BadRow(lst) == \/ lst.ty # "list"
                       \/ Len(lst.items) # number_of_qubits
                       \/ FirstIndex(lst.items, NotFloat) # 0
        bad == FirstIndex(v.items, BadRow)
    IN  IF _is_float(v) THEN Passed
        ELSE IF number_of_qubits = -1 THEN Appended(MsgNl(260, key))
        ELSE IF v.ty = "list"
             THEN IF Len(v.items) # number_of_qubits THEN Appended(MsgNlSp(270, key))
                  ELSE IF bad = 0 THEN Passed
                  ELSE IF v.items[bad].ty # "list" THEN Appended(MsgNlSp(280, key))
                  ELSE IF Len(v.items[bad].items) # number_of_qubits
                       THEN Appended(MsgNl(290, key))
                  ELSE Appended(MsgNl(300, key))
        ELSE IF v.ty = "ndarray"
             THEN IF NotNumericDtype(v) THEN Appended(MsgNl(310, key))
                  ELSE IF Size(v) = 1 THEN Passed
                  ELSE IF Shape0(v) # number_of_qubits THEN Appended(MsgNl(320, key))
                  ELSE IF Shape0(v) * Shape0(v) # Size(v) THEN Appended(MsgNl(330, key))
                  ELSE Passed
        ELSE Appended(MsgNl(340, key))

\* allowed_init
allowed_init ==
    {<<"+", "x">>, <<"-", "x">>, <<"+", "y">>, <<"-", "y">>, <<"+", "z">>, <<"-", "z">>}

\* the diagnostics of init_list[i..]: the `continue` statements of the inner
\* loop move on to the next member
RECURSIVE InitPauliMembers(_, _, _)
InitPauliMembers(key, init_list, i) ==
    IF i > Len(init_list) THEN <<>>
    ELSE (IF init_list[i].ty # "str" THEN MsgNl(360, key)
          ELSE IF Lower(init_list[i].s) \notin allowed_init THEN MsgNl(370, key)
          ELSE <<>>)
         \o InitPauliMembers(key, init_list, i + 1)

\* key == "init_pauli_state"
CheckInitPauli(key, v) ==
    IF v.ty # "str" /\ v.ty # "list" THEN Appended(MsgNl(350, key))
    ELSE Appended(InitPauliMembers(key, IF v.ty = "str" THEN <<v>> ELSE v.items, 1))

\* the b_* keys
CheckBool(key, v) ==
    IF v.ty # "bool" THEN Appended(MsgNl(390, key)) ELSE Passed

\* key == "trotter_order"
CheckTrotter(key, v) ==
    IF ~_is_int(v) THEN Appended(MsgNl(400, key))
    ELSE IF v.n # 2 /\ v.n # 3 /\ v.n # 4 THEN Appended(MsgNl(401, key))
    ELSE Passed

\* key == "max_dim_rho"
CheckMaxDim(key, v) ==
    IF ~_is_int(v) \/ v.n < 0 THEN Appended(MsgNl(410, key)) ELSE Passed

\* key == "cut_off" or key == "cut_off_rho"
CheckCutOff(key, v) ==
    IF ~_is_float(v) THEN Appended(MsgNl(420, key)) ELSE Passed

\* key == "metadata": Error 423 does not name the key
CheckMetadata(key, v) ==
    IF v.ty # "str" THEN Appended(MsgNl(422, key))
    ELSE IF \E i \in 1..Len(v.s) : v.s[i] = "\n" THEN Appended(MsgNl(423, ""))
    ELSE Passed

\* key == "load_files_prefix" or key == "output_files_prefix"
CheckPrefix(key, v) ==
    IF v.ty # "str" THEN Appended(MsgNl(425, key)) ELSE Passed


\* number of members of lst whose lower-cased text is one of names
CountOf(lst, names) ==
    Cardinality({i \in 1..Len(lst) : lst[i].ty = "str" /\ Lower(lst[i].s) \in names})

\* key == "1q_components"
Check1qComponents(key, v) ==
    LET NotStr(val) == val.ty # "str"
        Other(val) == val.ty # "str" \/ Lower(val.s) \notin {<<"x">>, <<"y">>, <<"z">>}
        stop == FirstIndex(v.items, Other)
        x_c == CountOf(v.items, {<<"x">>})
        y_c == CountOf(v.items, {<<"y">>})
        z_c == CountOf(v.items, {<<"z">>})
    IN  IF v.ty # "list" THEN Appended(MsgNl(430, key))
        ELSE IF Len(v.items) > 3 THEN Appended(MsgNl(440, key))
        ELSE IF stop # 0
             THEN (IF NotStr(v.items[stop]) THEN Appended(MsgNl(441, key))
                   ELSE Appended(MsgNl(450, key)))
        ELSE IF x_c > 1 \/ y_c > 1 \/ z_c > 1 THEN Appended(MsgNl(460, key))
        ELSE Passed

\* key == "1q_indices"
Check1qIndices(p, key, v) ==
    LET number_of_qubits == _get_number_of_qubits(p)
        Bad(element) == ~_is_int(element) \/ element.n >= number_of_qubits
        stop == FirstIndex(v.items, Bad)
    IN  IF v.ty # "list" THEN Appended(MsgNl(470, key))
        ELSE IF number_of_qubits = -1 THEN Appended(MsgNlSp(480, key))
        ELSE IF stop # 0
             THEN (IF ~_is_int(v.items[stop]) THEN Appended(MsgNl(490, key))
                   ELSE Appended(MsgNl(500, key)))
        ELSE IF Len(v.items) > number_of_qubits THEN Appended(MsgNlSp(510, key))
        ELSE IF DistinctInts(v.items) # Len(v.items) THEN Appended(MsgBare(520, key))
        ELSE Passed

\* the six counters of check_me
check_me_names ==
    << {<<"x", "x">>}, {<<"y", "y">>}, {<<"z", "z">>},
       {<<"x", "y">>, <<"y", "x">>}, {<<"x", "z">>, <<"z", "x">>},
       {<<"y", "z">>, <<"z", "y">>} >>

\* key == "2q_components": str.lower(val) raises on a member that is no str
Check2qComponents(key, v) ==
    LET Stop(val) == val.ty # "str"
                     \/ \A c \in 1..6 : Lower(val.s) \notin check_me_names[c]
        stop == FirstIndex(v.items, Stop)
    IN  IF v.ty # "list" THEN Appended(MsgNl(530, key))
        ELSE IF Len(v.items) > 6 THEN Appended(MsgNl(540, key))
        ELSE IF stop # 0
             THEN (IF v.items[stop].ty # "str" THEN Raised("TypeError")
                   ELSE Appended(MsgNl(550, key)))
        ELSE IF \E c \in 1..6 : CountOf(v.items, check_me_names[c]) > 1
             THEN Appended(MsgNl(550, key))
        ELSE Passed

\* key == "2q_indices" or key == "init_graph_state": tup[0] and tup[1] are
\* read before len(tup) is looked at
Check2qIndices(p, key, v) ==
    LET number_of_qubits == _get_number_of_qubits(p)
        Raises(tup) == /\ tup.ty = "tuple"
                       /\ \/ Len(tup.items) = 0
                          \/ _is_int(tup.items[1]) /\ Len(tup.items) = 1
        Malformed(tup) == \/ ~_is_int(tup.items[1])
                          \/ ~_is_int(tup.items[2])
                          \/ Len(tup.items) # 2
        Bad(tup) == \/ tup.ty # "tuple"
                    \/ Raises(tup)
                    \/ Malformed(tup)
                    \/ tup.items[1].n >= number_of_qubits
                    \/ tup.items[2].n >= number_of_qubits
        stop == FirstIndex(v.items, Bad)
    IN  IF v.ty # "list" THEN Appended(MsgNl(570, key))
        ELSE IF number_of_qubits = -1 THEN Appended(MsgNl(580, key))
        ELSE IF stop # 0
             THEN (IF v.items[stop].ty # "tuple" THEN Appended(MsgNlSp(590, key))
                   ELSE IF Raises(v.items[stop]) THEN Raised("IndexError")
                   ELSE IF Malformed(v.items[stop]) THEN Appended(MsgNlSp(600, key))
                   ELSE Appended(MsgNlSp(610, key)))
        ELSE IF Len(v.items) > number_of_qubits * number_of_qubits
             THEN Appended(MsgNl(620, key))
        ELSE IF DistinctPairs(v.items) # Len(v.items) THEN Appended(MsgBare(630, key))
        ELSE Passed

\* the final elif: a key none of the branches names
CheckUnknown(key, ignore_params) ==
    IF ignore_params.none \/ key \notin ignore_params.names
    THEN Appended(MsgNl(0, key))
    ELSE Passed

\* the keys of the b_* branch
BoolKeys ==
    {"b_periodic_x", "b_periodic_y", "b_force_rho_trace", "b_unique_id",
     "b_save_final_state", "b_initial_rho_compression"}

\* the keys of the per-site vector branch
SiteVectorKeys == {"h_x", "h_y", "h_z", "g_0", "g_1", "g_2"}

\* one pass of the body of `for key in dict.keys(parameters)`
VerifyKey(p, key, ignore_params) ==
    LET v == GetItem(p, key)
    IN  IF v.ty = "str" /\ v.s = <<>> THEN Passed
        ELSE CASE key = "N" -> CheckN(key, v)
          [] key \in {"t_init", "t_final", "tau"} -> CheckTime(p, key, v)
          [] key \in {"l_x", "l_y"} -> CheckLattice(key, v)
          [] key \in {"output_step", "force_rho_hermitian_step"} -> CheckStep(key, v)
          [] key \in SiteVectorKeys -> CheckSiteVector(p, key, v)
          [] key \in {"J_z", "J"} -> CheckCoupling(p, key, v)
          [] key = "init_pauli_state" -> CheckInitPauli(key, v)
          [] key \in BoolKeys -> CheckBool(key, v)
          [] key = "trotter_order" -> CheckTrotter(key, v)
          [] key = "max_dim_rho" -> CheckMaxDim(key, v)
          [] key \in {"cut_off", "cut_off_rho"} -> CheckCutOff(key, v)
          [] key = "metadata" -> CheckMetadata(key, v)
          [] key \in {"load_files_prefix", "output_files_prefix"} -> CheckPrefix(key, v)
          [] key = "1q_components" -> Check1qComponents(key, v)
          [] key = "1q_indices" -> Check1qIndices(p, key, v)
          [] key = "2q_components" -> Check2qComponents(key, v)
          [] key \in {"2q_indices", "init_graph_state"} -> Check2qIndices(p, key, v)
          [] OTHER -> CheckUnknown(key, ignore_params)

\* the per-key loop from entry i on: an exception leaves the function
RECURSIVE VerifyLoop(_, _, _)
VerifyLoop(p, i, ignore_params) ==
    IF i > Len(p.items) THEN Passed
    ELSE LET here == VerifyKey(p, p.items[i].key, ignore_params)
             rest == VerifyLoop(p, i + 1, ignore_params)
         IN  IF here.exc # "" THEN here
             ELSE IF rest.exc # "" THEN rest
             ELSE Appended(here.msg \o rest.msg)

\* "More cross-parameter checks"
CrossChecks(p) ==
    LET tau == GetItem(p, "tau")
        t_final == GetItem(p, "t_final")
        output_step == GetItem(p, "output_step")
    IN  IF ~(HasKey(p, "t_final") /\ HasKey(p, "tau")) THEN <<>>
        ELSE IF ~(_is_float(tau) /\ _is_float(t_final)) THEN <<>>
        ELSE IF ~(Num(tau) > 0 /\ Num(t_final) > 0) THEN <<>>
        ELSE IF Num(tau) > Num(t_final) THEN MsgNlSp(640, "")
        ELSE IF /\ HasKey(p, "output_step")
                /\ _is_int(output_step)
                /\ output_step.n > 0
                /\ output_step.n * Num(tau) > Num(t_final)
             THEN MsgNlSp(650, "")
        ELSE <<>>

\* verify_parameters without the `return` after Error 110
verify_parameters_no_return(p, ignore_params) ==
    IF p.ty = "NoneType" THEN Appended(MsgNl(100, ""))
    ELSE LET first == IF ~HasKey(p, "N") \/ ~HasKey(p, "t_final") \/ ~HasKey(p, "tau")
                      THEN MsgNl(110, "") ELSE <<>>
             loop == VerifyLoop(p, 1, ignore_params)
         IN  IF loop.exc # "" THEN loop
             ELSE Appended(first \o loop.msg \o CrossChecks(p))

\* verify_parameters(parameters, ignore_params)
verify_parameters(p, ignore_params) ==
    IF p.ty = "NoneType" THEN Appended(MsgNl(100, ""))
    ELSE IF ~HasKey(p, "N") \/ ~HasKey(p, "t_final") \/ ~HasKey(p, "tau")
         THEN Appended(MsgNl(110, ""))
    ELSE LET loop == VerifyLoop(p, 1, ignore_params)
         IN  IF loop.exc # "" THEN loop
             ELSE Appended(loop.msg \o CrossChecks(p))

\* _virtual_verify_parameters(): ignore_params defaults to None
_virtual_verify_parameters(p) == verify_parameters(p, [none |-> TRUE, names |-> {}])

-----------------------------------------------------------------------------
(* Text: a Python str is a sequence of one-character strings *)

Digits == <<"0", "1", "2", "3", "4", "5", "6", "7", "8", "9">>

\* str(n) for an int
RECURSIVE IntStr(_)
IntStr(n) ==
    IF n < 0 THEN <<"-">> \o IntStr(-n)
    ELSE IF n < 10 THEN <<Digits[n + 1]>>
    ELSE IntStr(n \div 10) \o <<Digits[(n % 10) + 1]>>

\* str(x) for a float holding halves/2: "1.0", "0.5", "-1.5"
FloatStr(halves) ==
    LET a == IF halves < 0 THEN -halves ELSE halves
    IN  (IF halves < 0 THEN <<"-">> ELSE <<>>)
        \o IntStr(a \div 2) \o <<".">> \o (IF a % 2 = 1 THEN <<"5">> ELSE <<"0">>)

\* the text of a float inside a printed numpy array: "1.", "0.5"
NumpyFloatStr(halves) ==
    LET a == IF halves < 0 THEN -halves ELSE halves
    IN  (IF halves < 0 THEN <<"-">> ELSE <<>>)
        \o IntStr(a \div 2) \o <<".">> \o (IF a % 2 = 1 THEN <<"5">> ELSE <<>>)

\* sep.join(parts)
RECURSIVE Join(_, _)
Join(parts, sep) ==
    IF Len(parts) = 0 THEN <<>>
    ELSE IF Len(parts) = 1 THEN parts[1]
    ELSE parts[1] \o sep \o Join(Tail(parts), sep)

\* str(v); repr(v) when quoted (the members of a printed list or tuple)
RECURSIVE Text(_, _)
Text(v, quoted) ==
    CASE v.ty = "int" -> IntStr(v.n)
      [] v.ty = "bool" -> IF v.n = 1 THEN <<"T", "r", "u", "e">>
                                     ELSE <<"F", "a", "l", "s", "e">>
      [] v.ty = "float" -> FloatStr(v.n)
      [] v.ty = "str" -> IF quoted THEN <<"'">> \o v.s \o <<"'">> ELSE v.s
      [] v.ty = "NoneType" -> <<"N", "o", "n", "e">>
      [] v.ty = "list" ->
            <<"[">> \o Join([i \in 1..Len(v.items) |-> Text(v.items[i], TRUE)],
                            <<",", " ">>) \o <<"]">>
      [] v.ty = "tuple" ->
            <<"(">> \o Join([i \in 1..Len(v.items) |-> Text(v.items[i], TRUE)],
                            <<",", " ">>)
                    \o (IF Len(v.items) = 1 THEN <<",">> ELSE <<>>) \o <<")">>
      [] v.ty = "ndarray" ->
            \* a printed array: members separated by one space (the members of
            \* the arrays that reach str() here are single)
            <<"[">> \o Join([i \in 1..Len(v.items) |->
                                IF v.items[i].ty = "float"
                                THEN NumpyFloatStr(v.items[i].n)
                                ELSE Text(v.items[i], TRUE)],
                            <<" ">>) \o <<"]">>

\* str(v)
Str(v) == Text(v, FALSE)

\* s.strip(chars)
RECURSIVE LStrip(_, _)
LStrip(s, chars) ==
    IF Len(s) > 0 /\ s[1] \in chars THEN LStrip(Tail(s), chars) ELSE s

RECURSIVE RStrip(_, _)
RStrip(s, chars) ==
    IF Len(s) > 0 /\ s[Len(s)] \in chars
    THEN RStrip(SubSeq(s, 1, Len(s) - 1), chars) ELSE s

Strip(s, chars) == RStrip(LStrip(s, chars), chars)

\* s.replace(old, new) for a one-character old; new is a text
RECURSIVE Replace(_, _, _)
Replace(s, old, new) ==
    IF Len(s) = 0 THEN <<>>
    ELSE (IF s[1] = old THEN new ELSE <<s[1]>>) \o Replace(Tail(s), old, new)

-----------------------------------------------------------------------------
(* Parsing text: int(s) *)

\* s is a decimal integer literal: an optional sign and one digit at least
IsIntText(s) ==
    LET digits == IF Len(s) > 0 /\ s[1] \in {"-", "+"} THEN Tail(s) ELSE s
    IN  Len(digits) > 0 /\ \A i \in 1..Len(digits) : \E d \in 1..10 : Digits[d] = digits[i]

\* the number a sequence of digits denotes
RECURSIVE DigitsValue(_)
DigitsValue(s) ==
    IF Len(s) = 0 THEN 0
    ELSE 10 * DigitsValue(SubSeq(s, 1, Len(s) - 1))
         + (CHOOSE d \in 0..9 : Digits[d + 1] = s[Len(s)])

\* int(s) for a decimal integer literal
ParseInt(s) ==
    IF s[1] = "-" THEN -DigitsValue(Tail(s))
    ELSE IF s[1] = "+" THEN DigitsValue(Tail(s))
    ELSE DigitsValue(s)

-----------------------------------------------------------------------------
(* build: the derived paths, the bond indices and the lines of the file *)

\* the default base name appended to an empty or directory-like prefix
DefaultBase == <<"l", "i", "n", "d", "b", "l", "a", "d">>

\* the suffix of the input file
InputSuffix == <<".", "i", "n", "p", "u", "t", ".", "t", "x", "t">>

\* the ids uuid.uuid4().hex can return (two short hexadecimal tokens stand
\* for the 32-digit ones)
Uuids == {<<"0", "a">>, <<"f", "3">>}

\* bool(v)
Truthy(v) ==
    CASE v.ty \in {"int", "bool", "float"} -> v.n # 0
      [] v.ty = "str" -> v.s # <<>>
      [] v.ty = "NoneType" -> FALSE
      [] OTHER -> v.items # <<>>

\* parameters.get(key, default)
GetOr(p, key, default) == IF HasKey(p, key) THEN GetItem(p, key) ELSE default

\* parameters[key] = val: in place for a key the dict holds, else appended
SetItem(p, key, val) ==
    IF HasKey(p, key)
    THEN [p EXCEPT !.items =
            [i \in 1..Len(p.items) |->
                IF p.items[i].key = key THEN Entry(key, val) ELSE p.items[i]]]
    ELSE [p EXCEPT !.items = Append(p.items, Entry(key, val))]

\* s_output_path before the id suffix is appended
PrefixPath(p) ==
    LET s == GetOr(p, "output_files_prefix", PyStr(<<>>)).s
    IN  IF s = <<>> \/ s[Len(s)] \in {"/", ".", "\\"} THEN s \o DefaultBase ELSE s

\* s_id_suffix
IdSuffix(s_uuid) == IF s_uuid # <<>> THEN <<".">> \o s_uuid ELSE <<>>

\* ndarray.shape of a one- or two-dimensional array
Shape(a) ==
    IF Len(a.items) > 0 /\ a.items[1].ty = "ndarray"
    THEN <<Len(a.items), Len(a.items[1].items)>>
    ELSE <<Len(a.items)>>

\* the keys among J, J_z holding an ndarray, in the order build appends them
Interactions(p) ==
    (IF HasKey(p, "J") /\ GetItem(p, "J").ty = "ndarray" THEN <<"J">> ELSE <<>>)
    \o (IF HasKey(p, "J_z") /\ GetItem(p, "J_z").ty = "ndarray" THEN <<"J_z">> ELSE <<>>)

\* the positions of a rows x cols grid column by column
RECURSIVE GridFrom_column_major(_, _, _)
GridFrom_column_major(rows, cols, k) ==
    IF k >= rows * cols THEN <<>>
    ELSE <<(<<k % rows, k \div rows>>)>> \o GridFrom_column_major(rows, cols, k + 1)

\* the positions (i, j), 0-based and row-major, of a rows x cols grid
RECURSIVE GridFrom(_, _, _)
GridFrom(rows, cols, k) ==
    IF k >= rows * cols THEN <<>>
    ELSE <<(<<k \div cols, k % cols>>)>> \o GridFrom(rows, cols, k + 1)

\* the pairs (i + 1, j + 1) of the positions of the grid of `shape` that
\* satisfy Keep, in row-major order
BondsOf(shape, Keep(_, _)) ==
    LET Kept(pos) == Keep(pos[1] + 1, pos[2] + 1)
        kept == SelectSeq(GridFrom(shape[1], IF Len(shape) < 2 THEN 0 ELSE shape[2], 0),
                          Kept)
    IN  [k \in 1..Len(kept) |-> <<kept[k][1] + 1, kept[k][2] + 1>>]

\* the bond index derivation without the comparison of the two shapes
BondIndices_no_shape_check(p) ==
    [exc |-> "", b_bond_indices |-> FALSE, bonds |-> <<>>]

\* first_bond_indices / second_bond_indices as a sequence of pairs, with
\* b_bond_indices and the exception raised while deriving them
BondIndices(p) ==
    LET interactions == Interactions(p)
        a == GetItem(p, interactions[1])
        J == GetItem(p, "J")
        J_z == GetItem(p, "J_z")
        NonZero1(i, j) == a.items[i].items[j].n # 0
        NonZero2(i, j) == J.items[i].items[j].n # 0 \/ J_z.items[i].items[j].n # 0
    IN  IF Len(interactions) = 2
        THEN IF Shape(J) # Shape(J_z)
             THEN [exc |-> "Exception", b_bond_indices |-> FALSE, bonds |-> <<>>]
             ELSE IF Shape(J)[1] > 0 /\ Len(Shape(J)) < 2
             THEN [exc |-> "IndexError", b_bond_indices |-> FALSE, bonds |-> <<>>]
             ELSE [exc |-> "", b_bond_indices |-> TRUE,
                   bonds |-> BondsOf(Shape(J), NonZero2)]
        ELSE IF Len(interactions) = 1
        THEN IF Shape(a)[1] > 0 /\ Len(Shape(a)) < 2
             THEN [exc |-> "IndexError", b_bond_indices |-> FALSE, bonds |-> <<>>]
             ELSE [exc |-> "", b_bond_indices |-> TRUE,
                   bonds |-> BondsOf(Shape(a), NonZero1)]
        ELSE [exc |-> "", b_bond_indices |-> FALSE, bonds |-> <<>>]


\* one line "key = value\n" of the input file
Line(key, value) == [key |-> key, value |-> value]

\* the value build writes for `key` (the text between " = " and "\n")
LineValue(p, key, output_path, bonds) ==
    LET v == GetItem(p, key)
        val_list == IF v.ty = "str" THEN <<v>> ELSE v.items
    IN  CASE key = "output_files_prefix" -> output_path
          [] key \in {"J", "J_z"} /\ v.ty = "ndarray" /\ Len(v.items) > 1 ->
                Join([i \in 1..Len(bonds) |->
                        Str(v.items[bonds[i][1]].items[bonds[i][2]])], <<",">>)
          [] v.ty = "ndarray" ->
                Join([i \in 1..Shape0(v) |-> Str(v.items[i])], <<",">>)
          [] key \in {"init_pauli_state", "1q_components", "2q_components"} ->
                Join([i \in 1..Len(val_list) |-> Strip(Str(val_list[i]), {"'"})], <<",">>)
          [] key = "1q_indices" ->
                Join([i \in 1..Len(v.items) |-> IntStr(v.items[i].n + 1)], <<",">>)
          [] key \in {"2q_indices", "init_graph_state"} ->
                Join([i \in 1..Len(v.items) |->
                        IntStr(v.items[i].items[1].n + 1) \o <<",">>
                        \o IntStr(v.items[i].items[2].n + 1)], <<",">>)
          [] OTHER -> Strip(Str(v), {"[", "]"})

\* the lines of the `for key in parameters.keys()` loop, from entry i on
RECURSIVE KeyLines(_, _, _, _)
KeyLines(p, i, output_path, bonds) ==
    IF i > Len(p.items) THEN <<>>
    ELSE (IF p.items[i].key = "b_unique_id" THEN <<>>
          ELSE <<Line(p.items[i].key, LineValue(p, p.items[i].key, output_path, bonds))>>)
         \o KeyLines(p, i + 1, output_path, bonds)

\* str(indices).strip("[]").replace(' ', '')
IndexList(indices) ==
    Replace(Strip(Str(PyList([k \in 1..Len(indices) |-> PyInt(indices[k])])),
                  {"[", "]"}), " ", <<>>)

\* the two lines written when b_bond_indices is set
BondLines(b) ==
    IF b.b_bond_indices
    THEN << Line("first_bond_indices",
                 IndexList([k \in 1..Len(b.bonds) |-> b.bonds[k][1]])),
            Line("second_bond_indices",
                 IndexList([k \in 1..Len(b.bonds) |-> b.bonds[k][2]])) >>
    ELSE <<>>

\* the whole text build writes
FileLines(p, output_path, b) == KeyLines(p, 1, output_path, b.bonds) \o BondLines(b)

\* open(path, "w"), the writes and close(): the file is created or replaced
WriteFile(files, path, lines) ==
    {f \in files : f.path # path} \cup {[path |-> path, lines |-> lines]}

-----------------------------------------------------------------------------
(* load_output: reading the data files.  A file is the sequence of its      *)
(* lines, a line a text; a float read from a file is held in thousandths    *)
(* (float("0.732") is 732, float("1") and float("1.0") are both 1000).      *)
(* A sub-mapping of the result is the sequence of its entries in insertion  *)
(* order: [name, q_indices, times, values].                                 *)

\* s is a decimal literal float() accepts: an optional sign, digits with one
\* point at most, one digit at least
IsFloatText(s) ==
    LET body == IF Len(s) > 0 /\ s[1] \in {"-", "+"} THEN Tail(s) ELSE s
        points == {i \in 1..Len(body) : body[i] = "."}
    IN  /\ Cardinality(points) <= 1
        /\ Cardinality(points) < Len(body)
        /\ \A i \in (1..Len(body)) \ points : \E d \in 1..10 : Digits[d] = body[i]

\* float(s) for a decimal literal of three decimals at most, in thousandths
ParseFloat(s) ==
    LET negative == s[1] = "-"
        body == IF s[1] \in {"-", "+"} THEN Tail(s) ELSE s
        point == IF \E i \in 1..Len(body) : body[i] = "."
                 THEN CHOOSE i \in 1..Len(body) : body[i] = "."
                 ELSE Len(body) + 1
        whole == SubSeq(body, 1, point - 1)
        decimals == SubSeq(body, point + 1, Len(body))
        padded == decimals \o [i \in 1..(3 - Len(decimals)) |-> "0"]
        thousandths == 1000 * DigitsValue(whole) + DigitsValue(padded)
    IN  IF negative THEN -thousandths ELSE thousandths

\* line.strip().split(): the words of a line between blanks
RECURSIVE Words(_)
Words(line) ==
    LET blank == {" ", "\t", "\n", "\r"}
    IN  IF Len(line) = 0 THEN <<>>
        ELSE IF line[1] \in blank THEN Words(Tail(line))
        ELSE LET end == IF \E i \in 1..Len(line) : line[i] \in blank
                        THEN (CHOOSE i \in 1..Len(line) :
                                 line[i] \in blank /\ \A j \in 1..(i - 1) : line[j] \notin blank) - 1
                        ELSE Len(line)
             IN  <<SubSeq(line, 1, end)>> \o Words(SubSeq(line, end + 1, Len(line)))

\* result.get((op.lower(), q_indices), None) is not None
HasObs(result, name, q_indices) ==
    \E i \in 1..Len(result) : result[i].name = name /\ result[i].q_indices = q_indices

\* an append that puts the new sample in front of the entry's samples
AppendObs_prepend(result, name, q_indices, t, val) ==
    IF HasObs(result, name, q_indices)
    THEN [i \in 1..Len(result) |->
            IF result[i].name = name /\ result[i].q_indices = q_indices
            THEN [result[i] EXCEPT !.times = <<t>> \o @, !.values = <<val>> \o @]
            ELSE result[i]]
    ELSE Append(result, [name |-> name, q_indices |-> q_indices,
                         times |-> <<t>>, values |-> <<val>>])

\* an append that never finds the entry of the key
AppendObs_new_entry(result, name, q_indices, t, val) ==
    Append(result, [name |-> name, q_indices |-> q_indices,
                    times |-> <<t>>, values |-> <<val>>])

\* obs_data[0].append(t); obs_data[1].append(val), on a new entry when the
\* key has none
AppendObs(result, name, q_indices, t, val) ==
    IF HasObs(result, name, q_indices)
    THEN [i \in 1..Len(result) |->
            IF result[i].name = name /\ result[i].q_indices = q_indices
            THEN [result[i] EXCEPT !.times = Append(@, t), !.values = Append(@, val)]
            ELSE result[i]]
    ELSE Append(result, [name |-> name, q_indices |-> q_indices,
                         times |-> <<t>>, values |-> <<val>>])

\* _read_data_line keeping the 1-based site indices of the file
_read_data_line_one_based(s_output_type, words, result) ==
    [exc |-> "",
     result |-> AppendObs(result, Lower(words[2]),
                          [k \in 1..(Len(words) - 3) |-> ParseInt(words[2 + k])],
                          ParseFloat(words[1]), ParseFloat(words[Len(words)]))]

\* _read_data_line(s_output_type, words, result): the exception raised, or
\* the sub-mapping with the row added
_read_data_line(s_output_type, words, result) ==
    LET n_indices == CASE s_output_type = "obs-1q" -> 1
                       [] s_output_type = "obs-2q" -> 2
                       [] OTHER -> 0
        Raises(exc) == [exc |-> exc, result |-> result]
    IN  IF ~IsFloatText(words[1]) THEN Raises("ValueError")
        ELSE IF Len(words) < 2 THEN Raises("IndexError")
        ELSE IF ~IsFloatText(words[Len(words)]) THEN Raises("ValueError")
        ELSE IF n_indices >= 1 /\ Len(words) < 3 THEN Raises("IndexError")
        ELSE IF n_indices >= 1 /\ ~IsIntText(words[3]) THEN Raises("ValueError")
        ELSE IF n_indices = 2 /\ Len(words) < 4 THEN Raises("IndexError")
        ELSE IF n_indices = 2 /\ ~IsIntText(words[4]) THEN Raises("ValueError")
        ELSE IF s_output_type \notin {"obs-1q", "obs-2q", "global"} THEN Raises("Exception")
        ELSE [exc |-> "",
              result |-> AppendObs(result, Lower(words[2]),
                                   [k \in 1..n_indices |-> ParseInt(words[2 + k]) - 1],
                                   ParseFloat(words[1]), ParseFloat(words[Len(words)]))]

\* the loop of _read_data_file over the lines after the first
RECURSIVE ReadLines(_, _, _, _)
ReadLines(s_output_type, lines, i, result) ==
    IF i > Len(lines) THEN [exc |-> "", result |-> result]
    ELSE IF Words(lines[i]) = <<>> THEN ReadLines(s_output_type, lines, i + 1, result)
    ELSE LET row == _read_data_line(s_output_type, Words(lines[i]), result)
         IN  IF row.exc # "" THEN row
             ELSE ReadLines(s_output_type, lines, i + 1, row.result)

-----------------------------------------------------------------------------
(* The calls on the instance *)

\* what `last` records of a call: the operation, the ignore_params passed to
\* the validator, the exception class that left the call ("" when it
\* returned), the validator text returned or carried by the exception, and
\* whether the call reached open(s_input_file, "w")
Outcome(op, ignore_params, exc, msg, opened) ==
    [op |-> op, ignore_params |-> ignore_params, exc |-> exc, msg |-> msg,
     opened |-> opened]

IgnoreNone == [none |-> TRUE, names |-> {}]
IgnoreList(names) == [none |-> FALSE, names |-> names]

\* the text of the exception build raises for coupling arrays of two shapes
ShapeMessage == <<Tok("text", 0, "J and J_z are not of the same size.")>>

\* LindbladMPOSolver.verify_parameters(self.parameters, ignore_params)
Verify(ignore_params) ==
    LET check_msg == verify_parameters(parameters, ignore_params)
    IN  /\ last' = Outcome("verify_parameters", ignore_params,
                           check_msg.exc, check_msg.msg, FALSE)
        /\ UNCHANGED <<parameters, s_input_file, s_output_path, s_id_suffix, fs>>

\* build() leaving by an exception
BuildRaises(p, exc, msg) ==
    /\ parameters' = p
    /\ last' = Outcome("build", IgnoreNone, exc, msg, FALSE)
    /\ UNCHANGED <<s_input_file, s_output_path, s_id_suffix, fs>>

\* build() recording the paths and the id suffix where it derives them,
\* before the bond indices are computed
BuildFrom_fields_first(p, s_uuid) ==
    LET output_path == PrefixPath(p) \o IdSuffix(s_uuid)
        input_file == Replace(output_path \o InputSuffix, "\\", <<"/">>)
        b == BondIndices(p)
    IN  /\ s_input_file' = input_file
        /\ s_output_path' = output_path
        /\ s_id_suffix' = IdSuffix(s_uuid)
        /\ parameters' = p
        /\ IF b.exc # ""
           THEN /\ last' = Outcome("build", IgnoreNone, b.exc,
                                   IF b.exc = "Exception" THEN ShapeMessage ELSE <<>>, FALSE)
                /\ fs' = fs
           ELSE /\ fs' = WriteFile(fs, input_file, FileLines(p, output_path, b))
                /\ last' = Outcome("build", IgnoreNone, "", <<>>, TRUE)

\* build() from the derivation of the id on, for the id s_uuid
BuildFrom(p, s_uuid) ==
    LET output_path == PrefixPath(p) \o IdSuffix(s_uuid)
        input_file == Replace(output_path \o InputSuffix, "\\", <<"/">>)
        b == BondIndices(p)
    IN  IF b.exc # ""
        THEN BuildRaises(p, b.exc, IF b.exc = "Exception" THEN ShapeMessage ELSE <<>>)
        ELSE /\ fs' = WriteFile(fs, input_file, FileLines(p, output_path, b))
             /\ s_input_file' = input_file
             /\ s_output_path' = output_path
             /\ s_id_suffix' = IdSuffix(s_uuid)
             /\ parameters' = p
             /\ last' = Outcome("build", IgnoreNone, "", <<>>, TRUE)

\* build() opening the input file before it validates
Build_open_first ==
    LET check_params == _virtual_verify_parameters(parameters)
        input_file == Replace(PrefixPath(parameters) \o InputSuffix, "\\", <<"/">>)
    IN  IF check_params.exc # "" \/ check_params.msg # <<>>
        THEN /\ fs' = WriteFile(fs, input_file, <<>>)
             /\ last' = Outcome("build", IgnoreNone, "Exception", check_params.msg, TRUE)
             /\ UNCHANGED <<parameters, s_input_file, s_output_path, s_id_suffix>>
        ELSE IF Truthy(GetOr(parameters, "b_unique_id", PyBool(FALSE)))
        THEN \E s_uuid \in Uuids :
                BuildFrom(SetItem(parameters, "unique_id", PyStr(s_uuid)), s_uuid)
        ELSE BuildFrom(parameters, GetOr(parameters, "unique_id", PyStr(<<>>)).s)

\* build()
Build ==
    LET check_params == _virtual_verify_parameters(parameters)
    IN  IF check_params.exc # ""
        THEN BuildRaises(parameters, check_params.exc, <<>>)
        ELSE IF check_params.msg # <<>>
        THEN BuildRaises(parameters, "Exception", check_params.msg)
        ELSE IF Truthy(GetOr(parameters, "b_unique_id", PyBool(FALSE)))
        THEN \E s_uuid \in Uuids :
                BuildFrom(SetItem(parameters, "unique_id", PyStr(s_uuid)), s_uuid)
        ELSE BuildFrom(parameters, GetOr(parameters, "unique_id", PyStr(<<>>)).s)

-----------------------------------------------------------------------------
(* The configurations the instance is constructed with *)

\* the largest N
MaxN == 2
\* the largest time, in halves
MaxHalves == 3
\* the largest output_step
MaxStep == 2

\* a key with the values it may take; an optional key may be absent
Slot(key, vals, optional) == [key |-> key, vals |-> vals, optional |-> optional]

\* the entry sequences that give every slot one of its values, in slot order
RECURSIVE ConfigsOf(_)
ConfigsOf(slots) ==
    IF Len(slots) = 0 THEN {<<>>}
    ELSE LET rest == ConfigsOf(Tail(slots))
         IN  {<<Entry(slots[1].key, v)>> \o r : v \in slots[1].vals, r \in rest}
             \cup (IF slots[1].optional THEN rest ELSE {})

Reversed(seq) == [i \in 1..Len(seq) |-> seq[Len(seq) + 1 - i]]

\* both insertion orders of every entry sequence
BothOrders(configs) == configs \cup {Reversed(c) : c \in configs}

\* values for t_final and tau: positive floats and an int; zero; the empty
\* string used as a place holder; text
TimeValues ==
    {PyFloat(h) : h \in 1..MaxHalves}
    \cup {PyInt(1), PyInt(0), PyStr(<<>>), PyStr(<<"a">>)}

TimeConfigs ==
    BothOrders(ConfigsOf(<<
        Slot("N", {PyInt(2)}, FALSE),
        Slot("t_final", TimeValues, FALSE),
        Slot("tau", TimeValues, FALSE),
        Slot("t_init", {PyFloat(0), PyInt(MaxHalves), PyStr(<<"a">>)}, TRUE),
        Slot("output_step",
             {PyInt(n) : n \in -1..MaxStep} \cup {PyFloat(2)}, TRUE) >>))

\* the longest index list
MaxLen == 2
\* the most entries a configuration holds besides N, t_final and tau
MaxExtra == 2

\* the sequences over S of length n at most
RECURSIVE SeqsUpTo(_, _)
SeqsUpTo(S, n) ==
    IF n = 0 THEN {<<>>}
    ELSE LET shorter == SeqsUpTo(S, n - 1)
         IN  shorter \cup {Append(q, x) : q \in shorter, x \in S}

\* members of a 1q_indices list: sites below, in and above the range, text
SiteValues == {PyInt(i) : i \in -1..MaxN} \cup {PyStr(<<"a">>)}

PyPair(i, j) == PyTuple(<<PyInt(i), PyInt(j)>>)

\* members of a 2q_indices / init_graph_state list: pairs in, below and above
\* the range; tuples of length 0, 1 and 3; a pair holding text; a list
PairValues ==
    {PyPair(0, 0), PyPair(0, 1), PyPair(1, 0), PyPair(MaxN, 0), PyPair(0, -1)}
    \cup {PyTuple(<<>>), PyTuple(<<PyInt(0)>>),
          PyTuple(<<PyInt(0), PyInt(0), PyInt(0)>>),
          PyTuple(<<PyStr(<<"a">>), PyInt(0)>>)}

\* a system of WideN sites, whose last indices are written with two digits
WideN == 12

WideConfigs ==
    LET required == <<Entry("N", PyInt(WideN)), Entry("t_final", PyInt(1)),
                      Entry("tau", PyInt(1))>>
    IN  {required \o <<e>> :
            e \in {Entry("1q_indices", PyList(<<PyInt(WideN - 3), PyInt(WideN - 1)>>)),
                   Entry("2q_indices", PyList(<<PyPair(WideN - 3, WideN - 2),
                                                PyPair(WideN - 1, 0)>>)),
                   Entry("init_graph_state", PyList(<<PyPair(WideN - 2, WideN - 1)>>))}}

\* one index-list key after valid N, t_final, tau, alone or followed by an
\* l_x that breaks its rule or by a 2q_components holding a number
IndexConfigs ==
    LET required == ConfigsOf(<<
            Slot("N", {PyInt(1), PyInt(MaxN)}, FALSE),
            Slot("t_final", {PyInt(1)}, FALSE),
            Slot("tau", {PyInt(1)}, FALSE) >>)
        lists == {Entry("1q_indices", PyList(l)) : l \in SeqsUpTo(SiteValues, MaxLen)}
                 \cup {Entry(key, PyList(l)) :
                         key \in {"2q_indices", "init_graph_state"},
                         l \in SeqsUpTo(PairValues, MaxLen)}
                 \cup {Entry("2q_indices", PyList(<<PyList(<<PyInt(0), PyInt(1)>>)>>))}
    IN  {r \o <<e>> \o x : r \in required, e \in lists,
                           x \in {<<>>, <<Entry("l_x", PyInt(-1))>>,
                                  <<Entry("2q_components", PyList(<<PyInt(1)>>))>>}}
        \cup WideConfigs

\* entries of the scalar, enumeration and unknown keys, with values that keep
\* and that break the key's rule
ExtraPool ==
    { Entry("foo", PyInt(1)), Entry("foo", PyStr(<<>>)), Entry("bar", PyNone),
      Entry("l_x", PyInt(-1)), Entry("l_y", PyInt(1)),
      Entry("trotter_order", PyInt(5)),
      Entry("b_unique_id", PyBool(TRUE)), Entry("b_periodic_x", PyInt(1)),
      Entry("cut_off", PyStr(<<"a">>)),
      Entry("metadata", PyStr(<<"a", "\n">>)), Entry("metadata", PyStr(<<"a">>)),
      Entry("output_files_prefix", PyStr(<<"o", "/">>)),
      Entry("init_pauli_state", PyStr(<<"+", "X">>)),
      Entry("init_pauli_state", PyList(<<PyInt(1), PyStr(<<"q">>)>>)),
      Entry("1q_components", PyList(<<PyStr(<<"x">>), PyStr(<<"Z">>)>>)),
      Entry("2q_components", PyList(<<PyStr(<<"x", "y">>), PyStr(<<"y", "x">>)>>)),
      Entry("2q_components", PyList(<<PyStr(<<"X", "X">>), PyInt(1)>>)),
      Entry("h_z", PyList(<<PyFloat(1), PyInt(2)>>)) }

\* the sequences of at most n entries of `pool` with pairwise distinct keys
ExtrasOf(pool, n) ==
    {x \in SeqsUpTo(pool, n) :
        \A i, j \in 1..Len(x) : i # j => x[i].key # x[j].key}

\* valid N, t_final, tau and at most MaxExtra further entries, before or
\* after them
KeyConfigs ==
    LET required == <<Entry("N", PyInt(2)), Entry("t_final", PyInt(1)),
                      Entry("tau", PyFloat(1))>>
    IN  {required \o x : x \in ExtrasOf(ExtraPool, MaxExtra)}
        \cup {x \o required : x \in ExtrasOf(ExtraPool, MaxExtra)}

\* further entries of the configurations that lack a required key
FewExtras ==
    { Entry("foo", PyInt(1)), Entry("l_x", PyInt(-1)), Entry("t_init", PyStr(<<"a">>)),
      Entry("2q_components", PyList(<<PyInt(1)>>)),
      Entry("output_step", PyInt(1)) }

\* configurations in which at least one of N, t_final, tau is absent
MissingConfigs ==
    LET some == ConfigsOf(<<
            Slot("N", {PyInt(2), PyStr(<<"a">>)}, TRUE),
            Slot("t_final", {PyInt(1), PyInt(0)}, TRUE),
            Slot("tau", {PyFloat(1), PyNone}, TRUE) >>)
    IN  {r \o x : r \in {c \in some : Len(c) < 3}, x \in ExtrasOf(FewExtras, MaxExtra)}
        \cup {x \o r : r \in {c \in some : Len(c) < 3}, x \in ExtrasOf(FewExtras, MaxExtra)}

\* the most non-zero entries of a coupling matrix
MaxBonds == 2

\* the n x n array of `dtype` holding val at the positions of support and
\* zero elsewhere
Matrix(n, support, val, zero, dtype) ==
    NdArray(dtype, [i \in 1..n |->
        NdArray(dtype, [j \in 1..n |-> IF <<i, j>> \in support THEN val ELSE zero])])

\* the n x n float64 arrays with k non-zero entries at most, all equal to val
Matrices(n, k, val) ==
    {Matrix(n, support, val, PyFloat(0), <<"f", "l", "o", "a", "t", "6", "4">>) :
        support \in {s \in SUBSET ((1..n) \X (1..n)) : Cardinality(s) <= k}}

\* arrays of one member, which the validator accepts for every N: 1 x 1 and
\* one-dimensional
SingleArrays ==
    {NdArray(<<"f", "l", "o", "a", "t", "6", "4">>,
             <<NdArray(<<"f", "l", "o", "a", "t", "6", "4">>, <<PyFloat(3)>>)>>),
     NdArray(<<"f", "l", "o", "a", "t", "6", "4">>, <<PyFloat(3)>>)}

\* valid N, t_final, tau with J and / or J_z: square arrays of N rows
\* (values 1.5 in J, -1.0 or the integer 2 in J_z), arrays of one member, a
\* number, or nested lists
CouplingConfigs ==
    LET int_matrix(n) == Matrix(n, {<<1, n>>}, PyInt(2), PyInt(0),
                                <<"i", "n", "t", "6", "4">>)
        rows(n) == PyList([i \in 1..n |-> PyList([j \in 1..n |-> PyInt(i - 1)])])
        of(n) == ConfigsOf(<<
            Slot("N", {PyInt(n)}, FALSE),
            Slot("t_final", {PyInt(1)}, FALSE),
            Slot("J", Matrices(n, MaxBonds, PyFloat(3)) \cup SingleArrays
                      \cup {PyFloat(1), rows(n)}, TRUE),
            Slot("tau", {PyInt(1)}, FALSE),
            Slot("J_z", Matrices(n, MaxBonds - 1, PyFloat(-2)) \cup SingleArrays
                        \cup {int_matrix(n)}, TRUE) >>)
    IN  of(1) \cup of(MaxN)
        \cup {Reversed(c) : c \in {d \in of(MaxN) : Len(d) = 5}}

\* values for a per-site key of a system of n sites: lists and arrays of n
\* numbers, a number, and a list that is too short or holds text
VectorValues(n) ==
    {PyList(l) : l \in [1..n -> {PyFloat(1), PyFloat(2), PyInt(2)}]}
    \cup {NdArray(<<"f", "l", "o", "a", "t", "6", "4">>, l) :
             l \in [1..n -> {PyFloat(1), PyFloat(-3)}]}
    \cup {NdArray(<<"i", "n", "t", "6", "4">>, [i \in 1..n |-> PyInt(i - 1)])}
    \cup {PyFloat(3), PyList([i \in 1..(n - 1) |-> PyInt(0)]),
          PyList([i \in 1..n |-> PyStr(<<"a">>)])}

\* valid N, t_final, tau with h_x and / or g_2
VectorConfigs ==
    LET of(n) == ConfigsOf(<<
            Slot("N", {PyInt(n)}, FALSE),
            Slot("h_x", VectorValues(n), TRUE),
            Slot("t_final", {PyFloat(2)}, FALSE),
            Slot("tau", {PyFloat(1)}, FALSE),
            Slot("g_2", VectorValues(n), TRUE) >>)
    IN  of(1) \cup of(MaxN)

\* valid N, t_final, tau with an output prefix (plain, empty, or ending in a
\* separator), b_unique_id and a unique_id of the caller's, each optional
PrefixConfigs ==
    ConfigsOf(<<
        Slot("output_files_prefix",
             {PyStr(<<>>), PyStr(<<"o">>), PyStr(<<"o", "/">>), PyStr(<<"a", ".">>),
              PyStr(<<"d", "\\">>), PyStr(<<"d", "\\", "r">>)}, TRUE),
        Slot("N", {PyInt(MaxN)}, FALSE),
        Slot("b_unique_id", {PyBool(TRUE), PyBool(FALSE)}, TRUE),
        Slot("t_final", {PyInt(1)}, FALSE),
        Slot("tau", {PyInt(1)}, FALSE),
        Slot("unique_id", {PyStr(<<"a", "b">>), PyStr(<<>>)}, TRUE) >>)

-----------------------------------------------------------------------------
(* solve: the solver process and its data files.  A data file is a record  *)
(* of whether it exists and of its lines; `out` holds the three files that *)
(* stand under s_output_path, one per output type.  The result of          *)
(* load_output is a dict in insertion order: entries [type, data].         *)

OutputTypes == <<"obs-1q", "obs-2q", "global">>

DataFile(lines) == [exists |-> TRUE, lines |-> lines]

NoFile == [exists |-> FALSE, lines |-> <<>>]

\* no data file has been written
NoOutput == [s_output_type \in {"obs-1q", "obs-2q", "global"} |-> NoFile]

\* what `trace` records of a solve call: the steps it took, in order, the
\* exit code wait() returned (0 when no process was spawned) and the
\* exception class that left the call ("" when it returned)
Trace(steps, exit_code, exc) == [steps |-> steps, exit_code |-> exit_code, exc |-> exc]

\* _read_data_file: open() raises when the file is missing, readline() drops
\* the header line, every other line goes through _read_data_line
_read_data_file(files, s_output_type) ==
    LET file == files[s_output_type]
    IN  IF ~file.exists THEN [exc |-> "FileNotFoundError", result |-> <<>>]
        ELSE ReadLines(s_output_type,
                       IF Len(file.lines) = 0 THEN <<>> ELSE Tail(file.lines), 1, <<>>)

\* load_output that leaves out the sub-mapping of a missing file
RECURSIVE LoadFrom_skip_missing(_, _, _)
LoadFrom_skip_missing(files, k, result) ==
    IF k > Len(OutputTypes) THEN [exc |-> "", result |-> result]
    ELSE IF ~files[OutputTypes[k]].exists THEN LoadFrom_skip_missing(files, k + 1, result)
    ELSE LET data == _read_data_file(files, OutputTypes[k])
         IN  IF data.exc # "" THEN [exc |-> data.exc, result |-> <<>>]
             ELSE LoadFrom_skip_missing(files, k + 1,
                      Append(result, [type |-> OutputTypes[k], data |-> data.result]))

\* load_output: the three files in order, up to the first exception
RECURSIVE LoadFrom(_, _, _)
LoadFrom(files, k, result) ==
    IF k > Len(OutputTypes) THEN [exc |-> "", result |-> result]
    ELSE LET data == _read_data_file(files, OutputTypes[k])
         IN  IF data.exc # "" THEN [exc |-> data.exc, result |-> <<>>]
             ELSE LoadFrom(files, k + 1,
                           Append(result, [type |-> OutputTypes[k], data |-> data.result]))

load_output(files) == LoadFrom(files, 1, <<>>)

\* the exit codes process.wait() returns: success, a failure, a signal
ExitCodes == {0, 1, -9}

\* the texts of the data rows
T_half == <<"0", ".", "5">>
T_one == <<"1">>
T_value == <<"0", ".", "7", "3", "2">>
T_minus == <<"-", "0", ".", "2", "5">>

\* a line of words separated by single spaces
RowText(words) == Join(words, <<" ">>)

HeaderLine == RowText(<<(<<"#", "t">>), <<"o", "p">>, <<"v", "a", "l">>>>)

\* rows of the obs-1q file: the times 0.5 and 1, the operator in both cases,
\* two sites, blanks around a row, a blank line and a row whose time is not a
\* number
Rows1q ==
    { RowText(<<T_half, <<"z">>, <<"1">>, T_value>>),
      RowText(<<T_one, <<"Z">>, <<"1">>, T_minus>>),
      <<" ">> \o RowText(<<T_half, <<"X">>, <<"2">>, T_one>>) \o <<"\n">>,
      <<" ", "\t">>,
      RowText(<<(<<"t">>), <<"z">>, <<"1">>, T_value>>) }

Rows2q ==
    { RowText(<<T_half, <<"z", "z">>, <<"1">>, <<"2">>, T_value>>),
      RowText(<<T_one, <<"Z", "z">>, <<"1">>, <<"2">>, T_minus>>),
      RowText(<<T_half, <<"x", "y">>, <<"2">>, T_value>>) }

RowsGlobal ==
    { RowText(<<T_half, <<"t", "r">>, T_one>>),
      RowText(<<T_one, <<"t", "r">>, T_one>>),
      RowText(<<T_half>>) }

\* how many rows a data file holds at most
MaxRows == 2

\* the data files of at most MaxRows rows drawn from `rows`, and no file
FilesOf(rows) ==
    {NoFile} \cup
    { DataFile(<<HeaderLine>> \o lines) :
        lines \in UNION {[1..n -> rows] : n \in 0..MaxRows} }

GoodFile(row) == DataFile(<<HeaderLine, row>>)

\* obs-1q files with no header: no line at all, or a first line that is empty
\* or a data row, followed by at most MaxRows well-formed rows
HeadlessFiles ==
    LET rows == { RowText(<<T_half, <<"z">>, <<"1">>, T_value>>),
                  RowText(<<T_one, <<"Z">>, <<"1">>, T_minus>>) }
    IN  {DataFile(<<>>)} \cup
        { DataFile(<<first>> \o lines) :
            first \in {<<>>} \cup rows,
            lines \in UNION {[1..n -> rows] : n \in 0..MaxRows} }

\* what the solver process may leave under s_output_path: either the obs-1q
\* file varies, with a header or without, or the other two do
SolverOutputs ==
    LET good1q == GoodFile(RowText(<<T_half, <<"z">>, <<"1">>, T_value>>))
        good2q == GoodFile(RowText(<<T_half, <<"z", "z">>, <<"1">>, <<"2">>, T_value>>))
        goodGlobal == GoodFile(RowText(<<T_half, <<"t", "r">>, T_one>>))
    IN  { [s_output_type \in {"obs-1q", "obs-2q", "global"} |->
              CASE s_output_type = "obs-1q" -> f
                [] s_output_type = "obs-2q" -> good2q
                [] OTHER -> goodGlobal] : f \in FilesOf(Rows1q) \cup HeadlessFiles }
        \cup
        { [s_output_type \in {"obs-1q", "obs-2q", "global"} |->
              CASE s_output_type = "obs-1q" -> good1q
                [] s_output_type = "obs-2q" -> f
                [] OTHER -> g] :
              f \in {NoFile} \cup {GoodFile(r) : r \in Rows2q},
              g \in {NoFile} \cup {GoodFile(r) : r \in RowsGlobal} }

\* solve() without the raise on a non-zero exit code
Solve_ignore_exit_code ==
    /\ IF s_input_file = <<>>
       THEN Build
       ELSE UNCHANGED <<parameters, s_input_file, s_output_path, s_id_suffix, fs, last>>
    /\ LET built == IF s_input_file # <<>> THEN <<>>
                    ELSE IF last'.opened THEN <<"verify_parameters", "write">>
                    ELSE <<"verify_parameters">>
       IN  IF s_input_file = <<>> /\ last'.exc # ""
           THEN /\ trace' = Trace(built, 0, last'.exc)
                /\ UNCHANGED <<self_result, out>>
           ELSE \E exit_code \in ExitCodes :
                   /\ out' = out
                   /\ LET loaded == load_output(out)
                      IN  /\ trace' = Trace(built \o <<"Popen", "wait", "load_output">>,
                                            exit_code, loaded.exc)
                          /\ self_result' = IF loaded.exc = "" THEN loaded.result
                                            ELSE self_result

\* solve(): build() when no input file has been written by this instance,
\* then execute() (Popen, wait), the raise on a non-zero exit code, and
\* load_output into self.result
Solve ==
    /\ IF s_input_file = <<>>
       THEN Build
       ELSE UNCHANGED <<parameters, s_input_file, s_output_path, s_id_suffix, fs, last>>
    /\ LET built == IF s_input_file # <<>> THEN <<>>
                    ELSE IF last'.opened THEN <<"verify_parameters", "write">>
                    ELSE <<"verify_parameters">>
       IN  IF s_input_file = <<>> /\ last'.exc # ""
           THEN /\ trace' = Trace(built, 0, last'.exc)
                /\ UNCHANGED <<self_result, out>>
           ELSE \E exit_code \in ExitCodes :
                   /\ out' = out
                   /\ IF exit_code # 0
                      THEN /\ trace' = Trace(built \o <<"Popen", "wait">>, exit_code,
                                             "Exception")
                           /\ self_result' = self_result
                      ELSE LET loaded == load_output(out)
                           IN  /\ trace' = Trace(built \o <<"Popen", "wait", "load_output">>,
                                                 exit_code, loaded.exc)
                               /\ self_result' = IF loaded.exc = "" THEN loaded.result
                                                 ELSE self_result

\* three data files of one row each, every one either well formed or holding
\* a row the reader raises on
FullOutputs ==
    { [s_output_type \in {"obs-1q", "obs-2q", "global"} |->
          CASE s_output_type = "obs-1q" -> GoodFile(r1)
            [] s_output_type = "obs-2q" -> GoodFile(r2)
            [] OTHER -> GoodFile(rg)] :
          r1 \in { RowText(<<T_half, <<"z">>, <<"1">>, T_value>>),
                   RowText(<<(<<"t">>), <<"z">>, <<"1">>, T_value>>) },
          r2 \in { RowText(<<T_half, <<"z", "z">>, <<"1">>, <<"2">>, T_value>>),
                   RowText(<<T_half, <<"x", "y">>, <<"2">>, T_value>>) },
          rg \in { RowText(<<T_half, <<"t", "r">>, T_one>>),
                   RowText(<<T_half>>) } }

\* the environment between two calls: one of the data files is no longer
\* found under s_output_path
Unlink ==
    /\ \E s_output_type \in {"obs-1q", "obs-2q", "global"} :
          /\ out[s_output_type].exists
          /\ out' = [out EXCEPT ![s_output_type] = NoFile]
    /\ UNCHANGED <<parameters, s_input_file, s_output_path, s_id_suffix, fs, last,
                   self_result, trace>>

\* configurations for solve: a valid one, one whose tau is rejected, each
\* with and without a generated id
SolveConfigs ==
    ConfigsOf(<<
        Slot("N", {PyInt(MaxN)}, FALSE),
        Slot("t_final", {PyInt(1)}, FALSE),
        Slot("tau", {PyInt(1), PyInt(0)}, FALSE),
        Slot("b_unique_id", {PyBool(TRUE)}, TRUE) >>)

\* the state after __init__(parameters) for a configuration of `configs`
InitWith(configs) ==
    /\ parameters \in configs
    /\ s_input_file = <<>>
    /\ s_output_path = <<>>
    /\ s_id_suffix = <<>>
    /\ fs = {}
    /\ last = Outcome("__init__", IgnoreNone, "", <<>>, FALSE)
    /\ self_result = <<>>
    /\ out = NoOutput
    /\ trace = Trace(<<>>, 0, "")

\* the ignore_params a caller passes to verify_parameters
IgnoreParams == {IgnoreNone, IgnoreList({"foo"})}

Next ==
    \/ \E ignore_params \in IgnoreParams :
            Verify(ignore_params) /\ UNCHANGED solve_vars
    \/ Build /\ UNCHANGED solve_vars

NextSolve ==
    \/ Next
    \/ Solve

NextUnlink ==
    \/ NextSolve
    \/ Unlink

\* the configurations for solve and configurations with J and J_z: arrays
\* of N rows both, or a 1 x 1 array against an array of N rows
UnlinkConfigs ==
    SolveConfigs \cup
    ConfigsOf(<<
        Slot("N", {PyInt(MaxN)}, FALSE),
        Slot("t_final", {PyInt(1)}, FALSE),
        Slot("tau", {PyInt(1)}, FALSE),
        Slot("J", {Matrix(1, {<<1, 1>>}, PyFloat(3), PyFloat(0),
                          <<"f", "l", "o", "a", "t", "6", "4">>),
                   Matrix(MaxN, {<<1, MaxN>>}, PyFloat(3), PyFloat(0),
                          <<"f", "l", "o", "a", "t", "6", "4">>)}, FALSE),
        Slot("J_z", {Matrix(MaxN, {<<MaxN, 1>>}, PyFloat(-2), PyFloat(0),
                            <<"f", "l", "o", "a", "t", "6", "4">>)}, FALSE),
        Slot("b_unique_id", {PyBool(TRUE)}, TRUE) >>)

\* the state after __init__(parameters), with all three data files in place
InitUnlink ==
    /\ parameters \in {PyDict(c) : c \in UnlinkConfigs}
    /\ s_input_file = <<>>
    /\ s_output_path = <<>>
    /\ s_id_suffix = <<>>
    /\ fs = {}
    /\ last = Outcome("__init__", IgnoreNone, "", <<>>, FALSE)
    /\ self_result = <<>>
    /\ out \in FullOutputs
    /\ trace = Trace(<<>>, 0, "")

SpecUnlink == InitUnlink /\ [][NextUnlink]_vars

InitTime == InitWith({PyDict(c) : c \in TimeConfigs})
SpecTime == InitTime /\ [][Next]_vars

InitIndex == InitWith({PyDict(c) : c \in IndexConfigs})
SpecIndex == InitIndex /\ [][Next]_vars

InitKeys == InitWith({PyDict(c) : c \in KeyConfigs})
SpecKeys == InitKeys /\ [][Next]_vars

InitMissing == InitWith({PyDict(c) : c \in MissingConfigs} \cup {PyNone})
SpecMissing == InitMissing /\ [][Next]_vars

InitCoupling == InitWith({PyDict(c) : c \in CouplingConfigs})
SpecCoupling == InitCoupling /\ [][Next]_vars

InitVectors == InitWith({PyDict(c) : c \in VectorConfigs})
SpecVectors == InitVectors /\ [][Next]_vars

InitPrefix == InitWith({PyDict(c) : c \in PrefixConfigs})
SpecPrefix == InitPrefix /\ [][Next]_vars

\* the state after __init__(parameters), with a solver that leaves `out`
InitSolve ==
    /\ parameters \in {PyDict(c) : c \in SolveConfigs}
    /\ s_input_file = <<>>
    /\ s_output_path = <<>>
    /\ s_id_suffix = <<>>
    /\ fs = {}
    /\ last = Outcome("__init__", IgnoreNone, "", <<>>, FALSE)
    /\ self_result = <<>>
    /\ out \in SolverOutputs
    /\ trace = Trace(<<>>, 0, "")
SpecSolve == InitSolve /\ [][NextSolve]_vars

\* every configuration above
Init ==
    InitWith({PyDict(c) : c \in TimeConfigs \cup IndexConfigs \cup KeyConfigs
                                \cup MissingConfigs} \cup {PyNone})
Spec == Init /\ [][Next]_vars

-----------------------------------------------------------------------------
(* The rules of the keys as the specification states them, written apart   *)
(* from verify_parameters: the claims compare the validator against them.  *)

IsNumber(v) == v.ty \in {"int", "float"}
IsInteger(v) == v.ty = "int"

RequiredPresent(p) ==
    p.ty = "dict" /\ HasKey(p, "N") /\ HasKey(p, "t_final") /\ HasKey(p, "tau")

\* N is a positive integer
ValidN(p) == HasKey(p, "N") /\ IsInteger(GetItem(p, "N")) /\ GetItem(p, "N").n >= 1

\* 0 <= i < N
InRange(p, i) == 0 <= i /\ i < GetItem(p, "N").n

\* a pair of integers
IsPair(tup) ==
    tup.ty = "tuple" /\ Len(tup.items) = 2
    /\ IsInteger(tup.items[1]) /\ IsInteger(tup.items[2])

PauliStates ==
    {<<"+", "x">>, <<"-", "x">>, <<"+", "y">>, <<"-", "y">>, <<"+", "z">>, <<"-", "z">>}

\* the class of a two-site component: xy and yx name the same one
PairClass(s) ==
    CASE s \in {<<"x", "x">>} -> "xx" [] s \in {<<"y", "y">>} -> "yy"
      [] s \in {<<"z", "z">>} -> "zz"
      [] s \in {<<"x", "y">>, <<"y", "x">>} -> "xy"
      [] s \in {<<"x", "z">>, <<"z", "x">>} -> "xz"
      [] s \in {<<"y", "z">>, <<"z", "y">>} -> "yz"
      [] OTHER -> ""

RecognizedKeys ==
    {"N", "t_init", "t_final", "tau", "l_x", "l_y", "output_step",
     "force_rho_hermitian_step", "h_x", "h_y", "h_z", "g_0", "g_1", "g_2",
     "J_z", "J", "init_pauli_state", "b_periodic_x", "b_periodic_y",
     "b_force_rho_trace", "b_unique_id", "b_save_final_state",
     "b_initial_rho_compression", "trotter_order", "max_dim_rho", "cut_off",
     "cut_off_rho", "metadata", "load_files_prefix", "output_files_prefix",
     "1q_components", "1q_indices", "2q_components", "2q_indices",
     "init_graph_state"}

\* the value under `key` satisfies the type/range rule of the key
RuleHolds(p, key) ==
    LET v == GetItem(p, key)
        Members(P(_)) == \A i \in 1..Len(v.items) : P(v.items[i])
        Distinct(F(_)) ==
            \A i, j \in 1..Len(v.items) : i # j => F(v.items[i]) # F(v.items[j])
        Site(e) == IsInteger(e) /\ InRange(p, e.n)
        SitePair(e) == IsPair(e) /\ InRange(p, e.items[1].n) /\ InRange(p, e.items[2].n)
        Row(e) == e.ty = "list" /\ Len(e.items) = GetItem(p, "N").n
                  /\ \A j \in 1..Len(e.items) : IsNumber(e.items[j])
        Axis(e) == e.ty = "str" /\ Lower(e.s) \in {<<"x">>, <<"y">>, <<"z">>}
        Axes(e) == e.ty = "str" /\ PairClass(Lower(e.s)) # ""
        Pauli(e) == e.ty = "str" /\ Lower(e.s) \in PauliStates
        LowerOf(e) == Lower(e.s)
        ClassOf(e) == PairClass(Lower(e.s))
        NumberOf(e) == e.n
        PairOf(e) == <<e.items[1].n, e.items[2].n>>
    IN  CASE key = "N" -> IsInteger(v) /\ v.n >= 1
          [] key \in {"t_final", "tau"} -> IsNumber(v) /\ Num(v) > 0
          [] key = "t_init" ->
                /\ IsNumber(v)
                /\ HasKey(p, "t_final") /\ IsNumber(GetItem(p, "t_final"))
                /\ Num(v) <= Num(GetItem(p, "t_final"))
          [] key \in {"l_x", "l_y", "output_step", "force_rho_hermitian_step",
                      "max_dim_rho"} -> IsInteger(v) /\ v.n >= 0
          [] key = "trotter_order" -> IsInteger(v) /\ v.n \in 2..4
          [] key \in {"cut_off", "cut_off_rho"} -> IsNumber(v)
          [] key \in BoolKeys -> v.ty = "bool"
          [] key = "metadata" -> v.ty = "str" /\ \A i \in 1..Len(v.s) : v.s[i] # "\n"
          [] key \in {"load_files_prefix", "output_files_prefix"} -> v.ty = "str"
          [] key = "init_pauli_state" ->
                Pauli(v) \/ (v.ty = "list" /\ Members(Pauli))
          [] key = "1q_components" ->
                v.ty = "list" /\ Len(v.items) <= 3 /\ Members(Axis) /\ Distinct(LowerOf)
          [] key = "2q_components" ->
                v.ty = "list" /\ Members(Axes) /\ Distinct(ClassOf)
          [] key \in SiteVectorKeys ->
                \/ IsNumber(v)
                \/ v.ty = "list" /\ ValidN(p) /\ Len(v.items) = GetItem(p, "N").n
                   /\ Members(IsNumber)
          [] key \in {"J", "J_z"} ->
                \/ IsNumber(v)
                \/ v.ty = "list" /\ ValidN(p) /\ Len(v.items) = GetItem(p, "N").n
                   /\ Members(Row)
          [] key = "1q_indices" ->
                /\ v.ty = "list" /\ ValidN(p) /\ Members(Site) /\ Distinct(NumberOf)
                /\ Len(v.items) <= GetItem(p, "N").n
          [] key \in {"2q_indices", "init_graph_state"} ->
                /\ v.ty = "list" /\ ValidN(p) /\ Members(SitePair) /\ Distinct(PairOf)
                /\ Len(v.items) <= GetItem(p, "N").n * GetItem(p, "N").n
          [] OTHER -> FALSE

\* every key of the configuration satisfies its own rule
AllRulesHold(p) ==
    RequiredPresent(p) /\ \A i \in 1..Len(p.items) : RuleHolds(p, p.items[i].key)

\* the two relations between keys: tau <= t_final and output_step * tau <= t_final
RelationsHold(p) ==
    /\ Num(GetItem(p, "tau")) <= Num(GetItem(p, "t_final"))
    /\ HasKey(p, "output_step") =>
         GetItem(p, "output_step").n * Num(GetItem(p, "tau")) <= Num(GetItem(p, "t_final"))

\* the call that just returned or raised was verify_parameters
Verified == last.op = "verify_parameters"

\* verify_parameters returned the empty text
ReturnedEmpty == Verified /\ last.exc = "" /\ last.msg = <<>>

\* the diagnostics of a text
DiagsOf(msg) == SelectSeq(msg, LAMBDA tok : tok.kind = "diag")

\* the text holds the diagnostic numbered `code`
HasDiag(msg, code) == \E i \in 1..Len(msg) : msg[i].kind = "diag" /\ msg[i].code = code

\* the key a diagnostic is about: Error 423 is the one about metadata that
\* does not spell the key
DiagKey(tok) == IF tok.code = 423 THEN "metadata" ELSE tok.key

\* the text holds a diagnostic about `key`
HasDiagFor(msg, key) ==
    \E i \in 1..Len(msg) : msg[i].kind = "diag" /\ DiagKey(msg[i]) = key

-----------------------------------------------------------------------------
(* C1 *)

\* C1: for a configuration lacking at least one of N, t_final, tau,
\* verify_parameters returns a non-empty text that is the Error 110 line and
\* nothing else, whatever the other entries are.
C1_MissingKeyOnly ==
    (Verified /\ parameters.ty = "dict" /\ ~RequiredPresent(parameters)) =>
        /\ last.exc = ""
        /\ last.msg # <<>>
        /\ Len(DiagsOf(last.msg)) = 1
        /\ \A i \in 1..Len(last.msg) :
              last.msg[i].kind = "diag" => last.msg[i].code = 110

\* a required key is missing beside an unknown key and an entry whose own
\* check would raise, and verify_parameters returned Error 110
C1_Witness ==
    /\ Verified /\ parameters.ty = "dict" /\ ~RequiredPresent(parameters)
    /\ HasKey(parameters, "foo") /\ HasKey(parameters, "2q_components")
    /\ HasDiag(last.msg, 110)

-----------------------------------------------------------------------------
(* C2 *)

\* C2 as stated: when every key satisfies its own rule, verify_parameters
\* returns the empty text.
C2_Original ==
    (Verified /\ AllRulesHold(parameters)) => ReturnedEmpty

\* C2 as amended: when every key satisfies its own rule and, besides, tau <=
\* t_final and output_step * tau <= t_final (for a configuration giving
\* output_step), verify_parameters returns the empty text.
C2_ValidAccepted ==
    (Verified /\ AllRulesHold(parameters) /\ RelationsHold(parameters)) => ReturnedEmpty

\* verify_parameters accepted a configuration holding optional keys
C2_Witness ==
    /\ ReturnedEmpty /\ AllRulesHold(parameters) /\ RelationsHold(parameters)
    /\ HasKey(parameters, "output_step") /\ HasKey(parameters, "t_init")
    /\ GetItem(parameters, "output_step").n = 0

-----------------------------------------------------------------------------
(* C3 *)

\* the text holds the unknown-key diagnostic naming `key`
UnknownKeyDiag(msg, key) ==
    \E i \in 1..Len(msg) : msg[i].kind = "diag" /\ msg[i].code = 0 /\ msg[i].key = key

\* the call passed an ignore_params list holding `key`
Ignored(key) == ~last.ignore_params.none /\ key \in last.ignore_params.names

\* C3: for a configuration holding N, t_final and tau, every key that is not
\* a recognized name and is not in ignore_params makes verify_parameters
\* return a text with the unknown-key diagnostic naming the key, whatever the
\* value under it; a key of ignore_params has no such diagnostic.
C3_UnknownKeyReported ==
    (Verified /\ RequiredPresent(parameters)) =>
        \A i \in 1..Len(parameters.items) :
            LET key == parameters.items[i].key
            IN  key \notin RecognizedKeys =>
                    IF Ignored(key) THEN ~UnknownKeyDiag(last.msg, key)
                    ELSE last.exc = "" /\ UnknownKeyDiag(last.msg, key)

-----------------------------------------------------------------------------
(* C4 *)

\* an index list of the configuration holds an integer, or a pair with a
\* component, outside 0 <= i < N
OutOfRangeIndex(p) ==
    \/ /\ HasKey(p, "1q_indices") /\ GetItem(p, "1q_indices").ty = "list"
       /\ \E i \in 1..Len(GetItem(p, "1q_indices").items) :
             LET e == GetItem(p, "1q_indices").items[i]
             IN  IsInteger(e) /\ ~InRange(p, e.n)
    \/ \E key \in {"2q_indices", "init_graph_state"} :
          /\ HasKey(p, key) /\ GetItem(p, key).ty = "list"
          /\ \E i \in 1..Len(GetItem(p, key).items) :
                LET e == GetItem(p, key).items[i]
                IN  IsPair(e) /\ (~InRange(p, e.items[1].n) \/ ~InRange(p, e.items[2].n))

\* C4: with N a positive integer, verify_parameters returns a non-empty
\* diagnostic whenever 1q_indices holds an integer, or 2q_indices /
\* init_graph_state holds a pair with a component, that is negative or >= N.
C4_OutOfRangeRejected ==
    (Verified /\ RequiredPresent(parameters) /\ ValidN(parameters)
     /\ OutOfRangeIndex(parameters)) =>
        last.exc = "" /\ last.msg # <<>>

-----------------------------------------------------------------------------
(* C5 *)

IndexKeys == {"1q_indices", "2q_indices", "init_graph_state"}

\* an index list of the configuration holds the same site, or the same
\* ordered pair, twice
RepeatedIndex(p) ==
    \/ /\ HasKey(p, "1q_indices") /\ GetItem(p, "1q_indices").ty = "list"
       /\ \E i, j \in 1..Len(GetItem(p, "1q_indices").items) :
             LET l == GetItem(p, "1q_indices").items
             IN  i # j /\ IsInteger(l[i]) /\ IsInteger(l[j]) /\ l[i].n = l[j].n
    \/ \E key \in {"2q_indices", "init_graph_state"} :
          /\ HasKey(p, key) /\ GetItem(p, key).ty = "list"
          /\ \E i, j \in 1..Len(GetItem(p, key).items) :
                LET l == GetItem(p, key).items
                IN  i # j /\ IsPair(l[i]) /\ IsPair(l[j]) /\ l[i] = l[j]

\* C5: with N a positive integer, verify_parameters returns a non-empty
\* diagnostic whenever an index list repeats a site or an ordered pair, and a
\* list of in-range, pairwise distinct entries has no diagnostic for its key.
C5_DuplicatesRejected ==
    (Verified /\ RequiredPresent(parameters) /\ ValidN(parameters)) =>
        /\ RepeatedIndex(parameters) => (last.exc = "" /\ last.msg # <<>>)
        /\ \A key \in IndexKeys :
              (HasKey(parameters, key) /\ RuleHolds(parameters, key)) =>
                  ~HasDiagFor(last.msg, key)

-----------------------------------------------------------------------------
(* C6 *)

\* tau and t_final are both positive numbers
BothPositive(p) ==
    /\ IsNumber(GetItem(p, "tau")) /\ Num(GetItem(p, "tau")) > 0
    /\ IsNumber(GetItem(p, "t_final")) /\ Num(GetItem(p, "t_final")) > 0

\* C6: with tau and t_final positive numbers, the text holds Error 640 when
\* tau > t_final and Error 650 when output_step is a positive integer with
\* output_step * tau > t_final; when tau or t_final is not a positive number
\* the text holds neither.
C6_CrossKeyExact ==
    (Verified /\ RequiredPresent(parameters)) =>
        LET tau == GetItem(parameters, "tau")
            t_final == GetItem(parameters, "t_final")
            output_step == GetItem(parameters, "output_step")
        IN  /\ (BothPositive(parameters) /\ Num(tau) > Num(t_final)) =>
                  HasDiag(last.msg, 640)
            /\ (/\ BothPositive(parameters)
                /\ HasKey(parameters, "output_step")
                /\ IsInteger(output_step) /\ output_step.n > 0
                /\ output_step.n * Num(tau) > Num(t_final)) =>
                  HasDiag(last.msg, 650)
            /\ ~BothPositive(parameters) =>
                  (~HasDiag(last.msg, 640) /\ ~HasDiag(last.msg, 650))

-----------------------------------------------------------------------------
(* C7 *)

\* C7: verify_parameters has a diagnostic for t_final or tau that is not a
\* number or is <= 0, for t_init that is not a number, and for t_init >
\* t_final; it has none for the three keys when t_final > 0, tau > 0 and
\* t_init <= t_final are numbers.
C7_TimeKeysChecked ==
    (Verified /\ RequiredPresent(parameters)) =>
        LET tau == GetItem(parameters, "tau")
            t_final == GetItem(parameters, "t_final")
            t_init == GetItem(parameters, "t_init")
            given == HasKey(parameters, "t_init")
        IN  /\ \A key \in {"t_final", "tau"} :
                  ~RuleHolds(parameters, key) =>
                      (last.exc = "" /\ HasDiagFor(last.msg, key))
            /\ (given /\ ~IsNumber(t_init)) =>
                  (last.exc = "" /\ HasDiagFor(last.msg, "t_init"))
            /\ (given /\ IsNumber(t_init) /\ IsNumber(t_final)
                /\ Num(t_init) > Num(t_final)) =>
                  (last.exc = "" /\ HasDiagFor(last.msg, "t_init"))
            /\ (/\ BothPositive(parameters)
                /\ given => (IsNumber(t_init) /\ Num(t_init) <= Num(t_final))) =>
                  \A key \in {"t_init", "t_final", "tau"} : ~HasDiagFor(last.msg, key)

-----------------------------------------------------------------------------
(* C8 *)

\* C8: for a configuration holding N, t_final and tau, the text returned by
\* verify_parameters has a diagnostic for every key that violates its own
\* rule, wherever the key stands in the mapping.
C8_EveryViolationReported ==
    (Verified /\ RequiredPresent(parameters)) =>
        \A i \in 1..Len(parameters.items) :
            LET key == parameters.items[i].key
            IN  (key \in RecognizedKeys /\ ~RuleHolds(parameters, key)) =>
                    (last.exc = "" /\ HasDiagFor(last.msg, key))

-----------------------------------------------------------------------------
(* C9 *)

\* C9: in the text verify_parameters returns, every diagnostic is followed at
\* once by a line break, and the text has as many line breaks as diagnostics.
C9_OneLinePerDiagnostic ==
    (Verified /\ last.exc = "") =>
        /\ \A i \in 1..Len(last.msg) :
              last.msg[i].kind = "diag" =>
                  (i < Len(last.msg) /\ last.msg[i + 1].kind = "nl")
        /\ Len(SelectSeq(last.msg, LAMBDA tok : tok.kind = "nl"))
              = Len(DiagsOf(last.msg))

-----------------------------------------------------------------------------
(* C10 *)

\* C10: a build() for which the validator returns a diagnostic raises and
\* neither opens nor changes a file; a build() that opens the input file is
\* one whose validation returned the empty text.
C10_RaiseBeforeWriting ==
    [][ last'.op = "build" =>
          LET check_params == _virtual_verify_parameters(parameters)
          IN  /\ (check_params.exc = "" /\ check_params.msg # <<>>) =>
                    /\ last'.exc = "Exception"
                    /\ last'.msg = check_params.msg
                    /\ ~last'.opened
                    /\ fs' = fs
              /\ (last'.opened \/ fs' # fs) => check_params = Passed ]_vars

\* a build() was refused with a diagnostic while the input file of an
\* earlier build() is on disk
C10_Witness ==
    /\ last.op = "build" /\ last.exc = "Exception" /\ ~last.opened
    /\ last.msg # <<>> /\ last.msg # ShapeMessage
    /\ fs # {}


-----------------------------------------------------------------------------
(* Reading the input file back *)

\* the fields of a text between commas; none for the empty text
RECURSIVE CommaFields(_)
CommaFields(s) ==
    IF Len(s) = 0 THEN <<>>
    ELSE IF \E i \in 1..Len(s) : s[i] = ","
    THEN LET i == CHOOSE i \in 1..Len(s) : s[i] = "," /\ \A j \in 1..(i - 1) : s[j] # ","
         IN  <<SubSeq(s, 1, i - 1)>> \o
             (IF i = Len(s) THEN <<(<<>>)>> ELSE CommaFields(SubSeq(s, i + 1, Len(s))))
    ELSE <<s>>

\* the file build() recorded as its input file
InputFile == CHOOSE f \in fs : f.path = s_input_file

\* the values of the lines of the input file that start with `key`
ValuesOf(key) ==
    LET lines == SelectSeq(InputFile.lines, LAMBDA l : l.key = key)
    IN  [i \in 1..Len(lines) |-> lines[i].value]

\* the last build() returned, for a configuration the instance still holds
Built == last.op = "build" /\ last.exc = "" /\ last.opened

-----------------------------------------------------------------------------
(* C11 *)

\* J and J_z are both ndarrays, of two shapes
ShapesDiffer(p) ==
    /\ p.ty = "dict" /\ HasKey(p, "J") /\ HasKey(p, "J_z")
    /\ GetItem(p, "J").ty = "ndarray" /\ GetItem(p, "J_z").ty = "ndarray"
    /\ Shape(GetItem(p, "J")) # Shape(GetItem(p, "J_z"))

\* C11: a build() of a configuration whose J and J_z are arrays of two
\* shapes raises without opening the input file, and no file is created or
\* replaced.
C11_ShapeMismatchRaises ==
    [][ (last'.op = "build" /\ ShapesDiffer(parameters)) =>
            /\ last'.exc # ""
            /\ ~last'.opened
            /\ fs' = fs ]_vars

\* build() raised "J and J_z are not of the same size." for a configuration
\* the validator accepts, and there is no file
C11_Witness ==
    /\ last.op = "build" /\ ShapesDiffer(parameters)
    /\ _virtual_verify_parameters(parameters) = Passed
    /\ last.exc = "Exception" /\ last.msg = ShapeMessage
    /\ ~last.opened /\ fs = {}

-----------------------------------------------------------------------------
(* C12 *)

\* J and J_z are both ndarrays, of one two-dimensional shape
SameShape(p) ==
    /\ p.ty = "dict" /\ HasKey(p, "J") /\ HasKey(p, "J_z")
    /\ GetItem(p, "J").ty = "ndarray" /\ GetItem(p, "J_z").ty = "ndarray"
    /\ Shape(GetItem(p, "J")) = Shape(GetItem(p, "J_z"))
    /\ Len(Shape(GetItem(p, "J"))) = 2

\* the positions (i, j), 1-based and in row-major order, at which J or J_z
\* holds a non-zero entry
NonZeroPositions(p) ==
    LET J == GetItem(p, "J")
        J_z == GetItem(p, "J_z")
        rows == Shape(J)[1]
        cols == Shape(J)[2]
        all == [k \in 1..(rows * cols) |-> <<((k - 1) \div cols) + 1, ((k - 1) % cols) + 1>>]
    IN  SelectSeq(all, LAMBDA pos : \/ J.items[pos[1]].items[pos[2]].n # 0
                                    \/ J_z.items[pos[1]].items[pos[2]].n # 0)

\* C12: after a build() of a configuration whose J and J_z are arrays of one
\* shape, the file has one first_bond_indices and one second_bond_indices
\* line, of equally many entries, and their k-th entries are the 1-based row
\* and column of the k-th position, in row-major order, at which J or J_z is
\* not zero.
C12_BondIndicesExact ==
    (Built /\ SameShape(parameters)) =>
        /\ Len(ValuesOf("first_bond_indices")) = 1
        /\ Len(ValuesOf("second_bond_indices")) = 1
        /\ LET first == CommaFields(ValuesOf("first_bond_indices")[1])
               second == CommaFields(ValuesOf("second_bond_indices")[1])
               expected == NonZeroPositions(parameters)
           IN  /\ Len(first) = Len(second)
               /\ Len(first) = Len(expected)
               /\ \A k \in 1..Len(expected) :
                     /\ IsIntText(first[k]) /\ ParseInt(first[k]) = expected[k][1]
                     /\ IsIntText(second[k]) /\ ParseInt(second[k]) = expected[k][2]

\* build() wrote the bond lines for a J and a J_z whose non-zero entries
\* stand at different positions, three in all
C12_Witness ==
    /\ Built /\ SameShape(parameters)
    /\ Len(NonZeroPositions(parameters)) = MaxBonds + 1
    /\ \E k \in 1..Len(NonZeroPositions(parameters)) :
          LET pos == NonZeroPositions(parameters)[k]
          IN  GetItem(parameters, "J").items[pos[1]].items[pos[2]].n = 0

-----------------------------------------------------------------------------
(* C13 *)

\* the configuration holds a two-dimensional ndarray under `key`
DenseUnder(p, key) ==
    /\ p.ty = "dict" /\ HasKey(p, key)
    /\ GetItem(p, key).ty = "ndarray" /\ Len(Shape(GetItem(p, key))) = 2

\* the texts of the non-zero entries of a two-dimensional array, row by row
NonZeroTexts(a) ==
    LET rows == Shape(a)[1]
        cols == Shape(a)[2]
        all == [k \in 1..(rows * cols) |->
                    a.items[((k - 1) \div cols) + 1].items[((k - 1) % cols) + 1]]
        kept == SelectSeq(all, LAMBDA e : e.n # 0)
    IN  [k \in 1..Len(kept) |-> Str(kept[k])]

\* C13: after a build() of a configuration holding J or J_z as a dense
\* array, the values on the key's line are the non-zero entries of the key's
\* own matrix and no others (no zero entry is written), and they are as many
\* as the bond index pairs.
C13_OnlyNonZeroWritten ==
    Built =>
        \A key \in {"J", "J_z"} :
            DenseUnder(parameters, key) =>
                /\ Len(ValuesOf(key)) = 1
                /\ CommaFields(ValuesOf(key)[1]) = NonZeroTexts(GetItem(parameters, key))
                /\ Len(ValuesOf("first_bond_indices")) = 1
                /\ Len(CommaFields(ValuesOf(key)[1]))
                      = Len(CommaFields(ValuesOf("first_bond_indices")[1]))

-----------------------------------------------------------------------------
(* C14 *)

\* {N: 2, t_final: 1.0, tau: 0.5}
Scenario ==
    PyDict(<<Entry("N", PyInt(2)), Entry("t_final", PyFloat(2)), Entry("tau", PyFloat(1))>>)

\* C14: {N: 2, t_final: 1.0, tau: 0.5} is accepted by the validator and its
\* input file holds the lines 'N = 2', 't_final = 1.0', 'tau = 0.5' and
\* 'output_files_prefix = lindblad'; every file build() writes has one
\* output_files_prefix line, holding the derived output prefix, also for a
\* configuration without that key.
C14_PrefixLineWritten ==
    /\ (Verified /\ parameters = Scenario) => ReturnedEmpty
    /\ (Built /\ parameters = Scenario) =>
          /\ ValuesOf("N") = <<(<<"2">>)>>
          /\ ValuesOf("t_final") = <<(<<"1", ".", "0">>)>>
          /\ ValuesOf("tau") = <<(<<"0", ".", "5">>)>>
          /\ ValuesOf("output_files_prefix") = <<DefaultBase>>
    /\ Built => ValuesOf("output_files_prefix") = <<s_output_path>>

-----------------------------------------------------------------------------
(* C15 *)

\* the value under `key` is a list, or a one-dimensional array, of N members
VectorUnder(p, key) ==
    /\ HasKey(p, key) /\ GetItem(p, key).ty \in {"list", "ndarray"}
    /\ Len(GetItem(p, key).items) = GetItem(p, "N").n
    /\ \A i \in 1..Len(GetItem(p, key).items) : IsNumber(GetItem(p, key).items[i])

\* C15: after a build() of a configuration holding a per-site key as a list
\* or an array of N numbers, the value on the key's line is the texts of the
\* members joined by commas, without a space and without a bracket.
C15_VectorsCommaJoined ==
    Built =>
        \A key \in SiteVectorKeys :
            VectorUnder(parameters, key) =>
                LET v == GetItem(parameters, key)
                    value == ValuesOf(key)[1]
                IN  /\ Len(ValuesOf(key)) = 1
                    /\ \A i \in 1..Len(value) : value[i] \notin {" ", "[", "]"}
                    /\ value = Join([i \in 1..Len(v.items) |-> Str(v.items[i])], <<",">>)

-----------------------------------------------------------------------------
(* C16 *)

\* the site indices the deserializer gives a row of `s_output_type` that
\* holds the site tokens `sites`
SitesRead(s_output_type, sites) ==
    _read_data_line(s_output_type, <<(<<"0", ".", "5">>), <<"z">>>> \o sites
                                       \o <<(<<"1">>)>>, <<>>).result[1].q_indices

\* C16: after a build(), every site index i of 1q_indices with 0 <= i < N
\* stands on the key's line as the text of i + 1 and every pair (i, j) of
\* 2q_indices / init_graph_state as the texts of i + 1 and j + 1, and the
\* deserializer reads these tokens of an obs-1q / obs-2q row back as (i,)
\* and (i, j).
C16_IndexRoundTrip ==
    Built =>
        /\ HasKey(parameters, "1q_indices") =>
              LET v == GetItem(parameters, "1q_indices")
                  fields == CommaFields(ValuesOf("1q_indices")[1])
              IN  /\ Len(fields) = Len(v.items)
                  /\ \A k \in 1..Len(v.items) :
                        InRange(parameters, v.items[k].n) =>
                            /\ fields[k] = IntStr(v.items[k].n + 1)
                            /\ SitesRead("obs-1q", <<fields[k]>>) = <<v.items[k].n>>
        /\ \A key \in {"2q_indices", "init_graph_state"} :
              HasKey(parameters, key) =>
                  LET v == GetItem(parameters, key)
                      fields == CommaFields(ValuesOf(key)[1])
                  IN  /\ Len(fields) = 2 * Len(v.items)
                      /\ \A k \in 1..Len(v.items) :
                            LET i == v.items[k].items[1].n
                                j == v.items[k].items[2].n
                            IN  (InRange(parameters, i) /\ InRange(parameters, j)) =>
                                    /\ fields[2 * k - 1] = IntStr(i + 1)
                                    /\ fields[2 * k] = IntStr(j + 1)
                                    /\ SitesRead("obs-2q", <<fields[2 * k - 1], fields[2 * k]>>)
                                          = <<i, j>>

\* build() wrote a pair whose members take two digits and one digit
C16_Witness ==
    /\ Built /\ HasKey(parameters, "2q_indices")
    /\ \E k \in 1..Len(GetItem(parameters, "2q_indices").items) :
          /\ GetItem(parameters, "2q_indices").items[k] = PyPair(WideN - 1, 0)
          /\ CommaFields(ValuesOf("2q_indices")[1])[2 * k - 1] = IntStr(WideN)
          /\ SitesRead("obs-2q", <<IntStr(WideN), IntStr(1)>>) = <<WideN - 1, 0>>

-----------------------------------------------------------------------------
(* C17 *)

\* the user prefix, with the default base name when it is empty or ends in
\* '/', '.' or '\'
BasePrefix(p) ==
    LET prefix == IF HasKey(p, "output_files_prefix")
                  THEN GetItem(p, "output_files_prefix").s ELSE <<>>
    IN  IF prefix = <<>> \/ prefix[Len(prefix)] \in {"/", ".", "\\"}
        THEN prefix \o <<"l", "i", "n", "d", "b", "l", "a", "d">>
        ELSE prefix

\* the configuration asks for a generated id
AsksForId(p) == HasKey(p, "b_unique_id") /\ GetItem(p, "b_unique_id") = PyBool(TRUE)

\* the configuration supplies an id of its own
SuppliesId(p) == HasKey(p, "unique_id") /\ GetItem(p, "unique_id").s # <<>>

\* C17: a build() of a configuration that is valid apart from the id keys
\* completes and records as output prefix the base prefix followed by '.'
\* and the id: a generated one when b_unique_id is True, the caller's when
\* the configuration supplies unique_id; with neither, it records the base
\* prefix alone and an empty id suffix.
C17_PrefixAndId ==
    [][ last'.op = "build" =>
          LET base == BasePrefix(parameters)
          IN  /\ last'.exc = ""
              /\ AsksForId(parameters) =>
                    \E id \in Uuids : /\ s_output_path' = base \o <<".">> \o id
                                      /\ s_id_suffix' = <<".">> \o id
              /\ (~AsksForId(parameters) /\ SuppliesId(parameters)) =>
                    /\ s_output_path' = base \o <<".">> \o GetItem(parameters, "unique_id").s
                    /\ s_id_suffix' = <<".">> \o GetItem(parameters, "unique_id").s
              /\ (~AsksForId(parameters) /\ ~SuppliesId(parameters)) =>
                    /\ s_output_path' = base
                    /\ s_id_suffix' = <<>> ]_vars

-----------------------------------------------------------------------------
(* C18 *)

\* the step was taken by the last solve call
Took(step) == \E k \in 1..Len(trace.steps) : trace.steps[k] = step

\* C18: a solve call whose process ended with a non-zero exit code raised
\* Exception and did not invoke load_output.
C18_NonZeroExitRaises ==
    (Took("wait") /\ trace.exit_code # 0) =>
        /\ trace.exc = "Exception"
        /\ ~Took("load_output")

\* the process was ended by a signal while all three data files were there,
\* and self.result is still the empty dict of __init__
C18_Witness ==
    /\ Took("wait") /\ trace.exit_code = -9
    /\ \A k \in 1..Len(OutputTypes) : out[OutputTypes[k]].exists
    /\ trace.exc = "Exception"
    /\ self_result = <<>>


-----------------------------------------------------------------------------
(* C19 *)

\* the steps of a solve call, in the order of the specification
SolveOrder == <<"verify_parameters", "write", "Popen", "wait", "load_output">>

\* C19: the steps of every solve call are the validation, the write of the
\* input file, the spawn, the wait and the parsing, in this order, up to the
\* step that raised: a call that returned took all five, and no call spawned
\* the process without having validated and written before in the same call.
C19_SolveOrder ==
    /\ Len(trace.steps) <= Len(SolveOrder)
    /\ trace.steps = SubSeq(SolveOrder, 1, Len(trace.steps))
    /\ (trace.steps # <<>> /\ trace.exc = "") => trace.steps = SolveOrder


-----------------------------------------------------------------------------
(* C20 *)

\* the last solve call returned, so self.result is what load_output read
Loaded == Took("load_output") /\ trace.exc = ""

\* the words of the non-blank lines after the header of a data file
DataRows(s_output_type) ==
    LET lines == out[s_output_type].lines
        rows == [i \in 1..(Len(lines) - 1) |-> Words(lines[i + 1])]
    IN  SelectSeq(rows, LAMBDA words : words # <<>>)

\* how many site tokens a row of the type carries
SiteCount(s_output_type) ==
    CASE s_output_type = "obs-1q" -> 1 [] s_output_type = "obs-2q" -> 2 [] OTHER -> 0

\* the key of a row: the lower-cased name and each site less one
RowKey(s_output_type, words) ==
    [name |-> Lower(words[2]),
     q_indices |-> [k \in 1..SiteCount(s_output_type) |-> ParseInt(words[2 + k]) - 1]]

KeyOf(entry) == [name |-> entry.name, q_indices |-> entry.q_indices]

\* the row '0.5 z 1 0.732' and a row of the same site whose name is 'Z'
ExampleRow == <<"0", ".", "5", " ", "z", " ", "1", " ", "0", ".", "7", "3", "2">>
UpperCaseRow == <<"1", " ", "Z", " ", "1", " ", "-", "0", ".", "2", "5">>

\* C20: after a solve() that returned, each of the three mappings holds one
\* entry per key (lower-cased name, sites less one) of the non-blank rows
\* after the header of its file, and the entry holds the times and the
\* values of the rows of that key in file order.  A header and the row
\* '0.5 z 1 0.732' give exactly ('z', (0,)) with ([0.5], [0.732]); followed by
\* '1 Z 1 -0.25' they give the one key with ([0.5, 1.0], [0.732, -0.25]).
C20_RowsKeyed ==
    Loaded =>
        /\ \A k \in 1..Len(OutputTypes) :
              LET s_output_type == OutputTypes[k]
                  data == self_result[k].data
                  rows == DataRows(s_output_type)
              IN  /\ self_result[k].type = s_output_type
                  /\ \A j \in 1..Len(rows) :
                        \E e \in 1..Len(data) : KeyOf(data[e]) = RowKey(s_output_type, rows[j])
                  /\ \A e1, e2 \in 1..Len(data) :
                        KeyOf(data[e1]) = KeyOf(data[e2]) => e1 = e2
                  /\ \A e \in 1..Len(data) :
                        LET mine == SelectSeq(rows, LAMBDA words :
                                        RowKey(s_output_type, words) = KeyOf(data[e]))
                        IN  /\ mine # <<>>
                            /\ data[e].times = [i \in 1..Len(mine) |-> ParseFloat(mine[i][1])]
                            /\ data[e].values =
                                  [i \in 1..Len(mine) |-> ParseFloat(mine[i][Len(mine[i])])]
        /\ out["obs-1q"].lines = <<HeaderLine, ExampleRow>> =>
              self_result[1].data = << [name |-> <<"z">>, q_indices |-> <<0>>,
                                        times |-> <<500>>, values |-> <<732>>] >>
        /\ out["obs-1q"].lines = <<HeaderLine, ExampleRow, UpperCaseRow>> =>
              self_result[1].data = << [name |-> <<"z">>, q_indices |-> <<0>>,
                                        times |-> <<500, 1000>>, values |-> <<732, -250>>] >>

\* solve() returned after reading an obs-1q file whose two rows name the
\* same site as 'z' and as 'Z'
C20_Witness ==
    /\ Loaded
    /\ out["obs-1q"].lines = <<HeaderLine, ExampleRow, UpperCaseRow>>
    /\ Len(self_result[1].data) = 1
    /\ self_result[2].data[1].q_indices = <<0, 1>>
    /\ self_result[3].data[1].q_indices = <<>>

-----------------------------------------------------------------------------
(* C21 *)

\* the positions in OutputTypes of the data files that are missing
MissingFiles == {k \in 1..Len(OutputTypes) : ~out[OutputTypes[k]].exists}

\* the files that load_output opens before the first missing one hold no
\* row that makes the reader raise
ReadableBeforeMissing ==
    \A k \in 1..Len(OutputTypes) :
        (\A m \in MissingFiles : k < m) => _read_data_file(out, OutputTypes[k]).exc = ""

-----------------------------------------------------------------------------
(* C22 *)

\* the line holds nothing but blanks
IsBlank(line) == \A i \in 1..Len(line) : line[i] \in {" ", "\t", "\n", "\r"}

\* how many lines after the first one of the data file are not blank
NonBlankAfterFirst(s_output_type) ==
    Cardinality({i \in 2..Len(out[s_output_type].lines) :
                    ~IsBlank(out[s_output_type].lines[i])})

\* the number of samples stored in a sub-mapping
RECURSIVE SampleCount(_)
SampleCount(data) ==
    IF data = <<>> THEN 0 ELSE Len(data[1].times) + SampleCount(Tail(data))

\* C22: after a solve() that returned, in each of the three sub-mappings every
\* key holds as many times as values, the two sequences list the rows of the
\* key in file order, and the samples of all keys together are as many as the
\* non-blank lines after the first line of the file, whatever the first line
\* holds.  The rows '1 Z 1 -0.25' and '0.5 z 1 0.732' in this order give the
\* times [1.0, 0.5].
C22_ParallelInFileOrder ==
    Loaded =>
        /\ \A k \in 1..Len(OutputTypes) :
              LET s_output_type == OutputTypes[k]
                  data == self_result[k].data
                  rows == DataRows(s_output_type)
              IN  /\ \A e \in 1..Len(data) :
                        /\ Len(data[e].times) = Len(data[e].values)
                        /\ \E at \in [1..Len(data[e].times) -> 1..Len(rows)] :
                              /\ \A i, j \in DOMAIN at : i < j => at[i] < at[j]
                              /\ \A i \in DOMAIN at :
                                    /\ RowKey(s_output_type, rows[at[i]]) = KeyOf(data[e])
                                    /\ data[e].times[i] = ParseFloat(rows[at[i]][1])
                                    /\ data[e].values[i] =
                                          ParseFloat(rows[at[i]][Len(rows[at[i]])])
                  /\ SampleCount(data) = NonBlankAfterFirst(s_output_type)
        /\ \A first \in {HeaderLine, ExampleRow, <<>>} :
              out["obs-1q"].lines = <<first, UpperCaseRow, ExampleRow>> =>
                  self_result[1].data = << [name |-> <<"z">>, q_indices |-> <<0>>,
                                            times |-> <<1000, 500>>,
                                            values |-> <<-250, 732>>] >>

\* solve() returned after reading an obs-1q file whose first line is a data
\* row and whose other rows come with decreasing times
C22_Witness ==
    /\ Loaded
    /\ out["obs-1q"].lines = <<ExampleRow, UpperCaseRow, ExampleRow>>
    /\ self_result[1].data[1].times = <<1000, 500>>
    /\ SampleCount(self_result[1].data) = 2


-----------------------------------------------------------------------------
(* C23 *)

\* C23: a verify_parameters call on a configuration that holds N, t_final and
\* tau returns a text, whatever the values are: it never leaves by an
\* exception.
C23_ValidatorTotal ==
    (/\ last.op = "verify_parameters"
     /\ parameters.ty = "dict"
     /\ HasKey(parameters, "N") /\ HasKey(parameters, "t_final") /\ HasKey(parameters, "tau"))
        => last.exc = ""


-----------------------------------------------------------------------------
(* C24 *)

\* verify_parameters returns the empty text for the configuration
Accepted(p) ==
    /\ _virtual_verify_parameters(p).exc = ""
    /\ _virtual_verify_parameters(p).msg = <<>>

\* C24: after a build() that completed, which the validator's empty text for
\* the parameters allowed, verify_parameters still returns the empty text for
\* the solver's parameters, so that a further build() passes its validation.
C24_BuildKeepsAccepted ==
    (last.op = "build" /\ last.exc = "") => Accepted(parameters)


-----------------------------------------------------------------------------
(* C25 *)

\* C25: a build() that raises, on the validator's diagnostic or on J and J_z
\* of two shapes, leaves s_input_file, s_output_path and s_id_suffix as they
\* were; a solve() that raises, on a non-zero exit code or on a missing data
\* file, leaves self.result as it was; and self.result never holds fewer than
\* the three sub-mappings of a completed load_output.
C25_FailureKeepsState ==
    [][ /\ (Build /\ last'.exc # "") =>
              UNCHANGED <<s_input_file, s_output_path, s_id_suffix>>
        /\ (Solve /\ trace'.exc # "") => self_result' = self_result
        /\ self_result' = <<>> \/ Len(self_result') = Len(OutputTypes) ]_vars

\* the last solve() found a data file missing and the last build() raised,
\* and the instance still holds the result and the paths of earlier calls
C25_Witness ==
    /\ trace.exc = "FileNotFoundError" /\ Len(self_result) = Len(OutputTypes)
    /\ last.op = "build" /\ last.exc = "Exception"
    /\ s_input_file # <<>> /\ s_output_path # <<>> /\ s_id_suffix # <<>>


-----------------------------------------------------------------------------
(* C26 *)

\* the value is a Python integer, bool included, of at least `least`
IntegerFrom(v, least) == v.ty \in {"int", "bool"} /\ v.n >= least

\* the value is a Python int, bool or float above zero
PositiveNumber(v) == v.ty \in {"int", "bool", "float"} /\ Num(v) > 0

\* C26: when verify_parameters returns the empty text, N is an integer of at
\* least 1 and t_final and tau are numbers above zero.
C26_EmptyTextMeansValid ==
    ReturnedEmpty =>
        /\ IntegerFrom(GetItem(parameters, "N"), 1)
        /\ PositiveNumber(GetItem(parameters, "t_final"))
        /\ PositiveNumber(GetItem(parameters, "tau"))


=============================================================================
